---------------------------- MODULE Spec2Model ----------------------------
(* snare: catching-test execution and assessment engine.                   *)
(*   internal/runner/tempdir.go   isolated workspace (TempDir)             *)
(*   internal/runner/executor.go  dual-run executor (ExecuteCatching)      *)
(*   internal/assess/*.go         assessment chain                         *)
(*   internal/pipeline/pipeline.go  stage 4 (execution) and 5 (assessment) *)
EXTENDS Integers, Sequences, FiniteSets, TLC

(***************************************************************************)
(* Bounds                                                                  *)
(***************************************************************************)
\* number of workspace API calls in one behaviour of SpecFS
MaxOps == 5
\* number of (test, mutation) pairs the pipeline executes in one run
MaxPairs == 2
\* the largest per-test timeout a caller supplies, in seconds (SpecRunner)
MaxTimeout == 2
\* symlinks followed while resolving one path (the kernel's ELOOP limit)
MaxFollow == 2
\* assessor or chain applications on one TestResult in one behaviour of SpecChain
MaxSteps == 2
\* longest captured output handed to the prompt builder, in bytes (SpecPrompt)
MaxOutput == 502

(***************************************************************************)
(* The file system.  A path is the sequence of its components; the first   *)
(* component names the directory the path is rooted in: the module         *)
(* directory or the temp directory of a workspace handle.  fs maps every   *)
(* existing path to its node.  Text (file contents, test code, captured    *)
(* output) is a sequence of lexemes.                                       *)
(***************************************************************************)
VARIABLES
    fs,          \* the file system: existing path -> node
    tdState,     \* handle -> "none" | "live" | "cleaned" | "stuck"   (TempDir objects)
    lastWrite,   \* handle -> {<<relPath, bytes>>}: its latest successful OverwriteFile per path
    lastCall,    \* the latest workspace API call of SpecFS: [op, h, err, again]
    ops,         \* number of API calls made (SpecFS)
    pc,          \* position of Pipeline.Run / ExecuteCatching
    cfg,         \* inputs of the run: target file, sources, judge client, tests
    pair,        \* iterations of the test loop completed
    cur,         \* locals of the running ExecuteCatching (test, paths, result, err)
    runLog,      \* runner invocations of the running ExecuteCatching
    created,     \* handles whose NewTempDir succeeded in the running ExecuteCatching
    defers,      \* deferred Cleanup calls of the running ExecuteCatching (a stack)
    results,     \* PipelineResult.Results
    counts,      \* PipelineResult counters
    rec,         \* the TestResult an assessor or a chain is applied to (SpecChain)
    step,        \* the latest application: [n, op, answer, before, calls] (SpecChain)
    run,         \* one Language.RunTest call and the process it waits for (SpecRunner)
    prompt       \* one buildJudgePrompt call: its commit message and its text (SpecPrompt)

vars == <<fs, tdState, lastWrite, lastCall, ops, pc, cfg, pair, cur, runLog,
          created, defers, results, counts, rec, step, run, prompt>>

Handles == {"td", "td2"}
ModuleDir == <<"mod">>
Root(h) == <<h>>
NoPath == <<"?">>

DirNode == [kind |-> "dir", data |-> <<>>, to |-> <<>>]
FileNode(content) == [kind |-> "file", data |-> content, to |-> <<>>]
LinkNode(target) == [kind |-> "link", data |-> <<>>, to |-> target]

\* The project: main.go, pkg/a.go, pkg/b.go, pkg/sub/c.go
InitFS ==
    (<<"mod">> :> DirNode) @@
    (<<"mod", "main.go">> :> FileNode(<<"main0">>)) @@
    (<<"mod", "pkg">> :> DirNode) @@
    (<<"mod", "pkg", "a.go">> :> FileNode(<<"a0">>)) @@
    (<<"mod", "pkg", "b.go">> :> FileNode(<<"b0">>)) @@
    (<<"mod", "pkg", "sub">> :> DirNode) @@
    (<<"mod", "pkg", "sub", "c.go">> :> FileNode(<<"c0">>))

Front(s) == SubSeq(s, 1, Len(s) - 1)
Last(s) == s[Len(s)]
IsPrefix(p, q) == Len(p) <= Len(q) /\ SubSeq(q, 1, Len(p)) = p

Ok(f) == [fs |-> f, err |-> FALSE]
Err(f) == [fs |-> f, err |-> TRUE]

\* Path resolution as the kernel does it for stat(2): every component,
\* the last included, is followed when it is a symbolic link.
RECURSIVE Walk(_, _, _, _)
Walk(f, at, rest, fuel) ==
    IF rest = <<>> THEN at
    ELSE LET next == Append(at, Head(rest)) IN
         IF next \notin DOMAIN f THEN NoPath
         ELSE IF f[next].kind = "link"
              THEN IF fuel = 0 THEN NoPath
                   ELSE Walk(f, <<>>, f[next].to \o Tail(rest), fuel - 1)
         ELSE IF f[next].kind = "file" /\ Tail(rest) # <<>> THEN NoPath
         ELSE Walk(f, next, Tail(rest), fuel)

Resolve(f, p) == Walk(f, <<>>, p, MaxFollow)

IsDirAt(f, r) == r = <<>> \/ (r \in DOMAIN f /\ f[r].kind = "dir")

\* The directory entry a path names: its parent resolved, its last
\* component not followed (lstat(2), unlink(2), symlink(2)).
Entry(f, p) ==
    LET par == Resolve(f, Front(p)) IN
    IF par = NoPath \/ ~IsDirAt(f, par) THEN NoPath ELSE Append(par, Last(p))

Exists(f, p) == Entry(f, p) # NoPath /\ Entry(f, p) \in DOMAIN f

\* os.ReadFile: the bytes of the file the path resolves to, <<"<error>">> otherwise
ReadFile(f, p) ==
    LET r == Resolve(f, p) IN
    IF r # NoPath /\ r # <<>> /\ f[r].kind = "file" THEN f[r].data ELSE <<"<error>">>

\* os.ReadDir: the names directly under a directory
ReadDir(f, d) == {Last(q) : q \in {q \in DOMAIN f : Len(q) = Len(d) + 1 /\ IsPrefix(d, q)}}

\* os.Symlink(oldname, newname)
Symlink(f, old, new) ==
    LET e == Entry(f, new) IN
    IF e = NoPath \/ e \in DOMAIN f THEN Err(f) ELSE Ok(f @@ (e :> LinkNode(old)))

\* os.Remove of a file or symbolic link (the only use the code makes of it)
Remove(f, p) ==
    LET e == Entry(f, p) IN
    IF e = NoPath \/ e \notin DOMAIN f \/ f[e].kind = "dir" THEN Err(f)
    ELSE Ok([q \in DOMAIN f \ {e} |-> f[q]])

RemoveAllFollowingLinks(f, p) ==
    LET gone == {q \in DOMAIN f : IsPrefix(p, q)}
        targets == {f[q].to : q \in {x \in gone : f[x].kind = "link"}}
    IN [q \in {q \in DOMAIN f : ~IsPrefix(p, q) /\ \A t \in targets : ~IsPrefix(t, q)} |-> f[q]]

\* os.RemoveAll: the path and everything below it; no error when absent
RemoveAll(f, p) == [q \in {q \in DOMAIN f : ~IsPrefix(p, q)} |-> f[q]]

\* os.MkdirAll: nil when the path is a directory already, an error when it
\* is something else, otherwise the parents are made first, then the path
RECURSIVE MkdirAll(_, _)
MkdirAll(f, p) ==
    LET r == Resolve(f, p) IN
    IF r # NoPath THEN (IF IsDirAt(f, r) THEN Ok(f) ELSE Err(f))
    ELSE IF p = <<>> THEN Err(f)
    ELSE LET up == MkdirAll(f, Front(p)) IN
         IF up.err THEN up
         ELSE LET e == Entry(up.fs, p) IN
              IF e = NoPath \/ e \in DOMAIN up.fs THEN Err(up.fs)
              ELSE Ok(up.fs @@ (e :> DirNode))

\* write(2) after open(O_WRONLY|O_CREATE|O_TRUNC): the final component is
\* followed when it is a symbolic link; a missing file is created
WriteFileFollowing(f, p, content) ==
    LET e == Entry(f, p) IN
    IF e = NoPath THEN Err(f)
    ELSE IF e \notin DOMAIN f THEN Ok(f @@ (e :> FileNode(content)))
    ELSE LET r == Resolve(f, p) IN
         IF r = NoPath \/ r = <<>> \/ f[r].kind # "file" THEN Err(f)
         ELSE Ok([f EXCEPT ![r] = FileNode(content)])

\* os.WriteFile(name, data, 0o644)
WriteFile(f, p, content) == WriteFileFollowing(f, p, content)


(***************************************************************************)
(* internal/runner/tempdir.go                                              *)
(***************************************************************************)
\* copyDir(src, dst): directories are made, files are symlinked to the source
RECURSIVE copyDir(_, _, _), copyEntries(_, _, _, _)
copyDir(f, src, dst) ==
    LET m == MkdirAll(f, dst) IN
    IF m.err THEN m
    ELSE IF Resolve(f, src) = NoPath \/ ~IsDirAt(f, Resolve(f, src)) THEN Err(m.fs)
    ELSE copyEntries(m.fs, src, dst, ReadDir(f, Resolve(f, src)))

copyEntries(f, src, dst, names) ==
    IF names = {} THEN Ok(f)
    ELSE LET name == CHOOSE n \in names : TRUE
             srcPath == Append(src, name)
             dstPath == Append(dst, name)
             r == IF f[srcPath].kind = "dir"
                  THEN copyDir(f, srcPath, dstPath)
                  ELSE Symlink(f, srcPath, dstPath)
         IN IF r.err THEN r ELSE copyEntries(r.fs, src, dst, names \ {name})

\* TempDir.symlinkContents: one symlink per top-level entry of the module dir
RECURSIVE symlinkEntries(_, _, _)
symlinkEntries(f, h, names) ==
    IF names = {} THEN Ok(f)
    ELSE LET name == CHOOSE n \in names : TRUE
             r == Symlink(f, Append(ModuleDir, name), Append(Root(h), name))
         IN IF r.err THEN r ELSE symlinkEntries(r.fs, h, names \ {name})

symlinkContents(f, h) ==
    IF ~IsDirAt(f, Resolve(f, ModuleDir)) THEN Err(f)
    ELSE symlinkEntries(f, h, ReadDir(f, ModuleDir))

CleanupLeavesRoot(f, h) == f

\* TempDir.Cleanup
Cleanup(f, h) == RemoveAll(f, Root(h))

\* NewTempDir(moduleDir).  fault is the I/O failure the environment injects:
\* "mkdtemp" (os.MkdirTemp fails), "symlink" (an os.Symlink fails), "none".
NewTempDir(f, h, fault) ==
    IF fault = "mkdtemp" \/ Root(h) \in DOMAIN f THEN Err(f)
    ELSE LET made == f @@ (Root(h) :> DirNode)
             linked == symlinkContents(made, h)
         IN IF fault = "symlink" \/ linked.err
            THEN Err(Cleanup(linked.fs, h))
            ELSE Ok(linked.fs)

\* TempDir.OverwriteFile(relPath, content).  fault is the I/O failure the
\* environment injects: "write" (os.WriteFile cannot open the target), "none".
OverwriteFile(f, h, relPath, content, fault) ==
    LET target == Root(h) \o relPath
        topLevel == relPath[1]
        topLevelPath == Append(Root(h), topLevel)
    IN
    IF ~Exists(f, topLevelPath) THEN Err(f)                       \* os.Lstat
    ELSE
      LET info == f[Entry(f, topLevelPath)]
          unlinked ==
            IF info.kind = "link"
            THEN LET realPath == info.to                           \* os.Readlink
                     real == Resolve(f, realPath)                  \* os.Stat
                 IN IF real = NoPath THEN Err(f)
                    ELSE IF IsDirAt(f, real)
                    THEN LET rm == Remove(f, topLevelPath) IN
                         IF rm.err THEN rm ELSE copyDir(rm.fs, realPath, topLevelPath)
                    ELSE Remove(f, topLevelPath)
            ELSE Ok(f)
      IN
      IF unlinked.err THEN unlinked
      ELSE LET parent == MkdirAll(unlinked.fs, Front(target)) IN
           IF parent.err THEN parent
           ELSE IF fault = "write" THEN Err(parent.fs)
           ELSE WriteFile(parent.fs, target, content)

(***************************************************************************)
(* pkg/model.TestResult as the executor, the pipeline and the assessors    *)
(* use it.  Confidence and Assessment are kept in hundredths.              *)
(***************************************************************************)
NewTestResult(test, mutant) ==
    [Test |-> test, Mutant |-> mutant,
     PassParent |-> FALSE, FailDiff |-> FALSE,
     ParentOutput |-> <<>>, DiffOutput |-> <<>>,
     IsCatching |-> FALSE, Confidence |-> 0, Assessment |-> 0,
     FilteredReason |-> "", BehaviorChange |-> "", Question |-> ""]

\* strings.Contains(s, substr)
Contains(s, substr) ==
    \E i \in 0..(Len(s) - Len(substr)) : SubSeq(s, i + 1, i + Len(substr)) = substr

(***************************************************************************)
(* internal/assess/catching.go                                             *)
(***************************************************************************)
CompilationFilterOnlyOnFailure(r) ==
    IF r.FilteredReason # "" \/ r.PassParent THEN r
    ELSE IF \/ Contains(r.ParentOutput, <<"build failed">>)
            \/ Contains(r.ParentOutput, <<"does not compile">>)
            \/ Contains(r.ParentOutput, <<"[", "build failed", "]">>)
    THEN [r EXCEPT !.FilteredReason = "compilation failure", !.IsCatching = FALSE,
                   !.Confidence = 0, !.Assessment = -100]
    ELSE r

CompilationFilter(r) ==
    IF r.FilteredReason # "" THEN r
    ELSE IF \/ Contains(r.ParentOutput, <<"build failed">>)
            \/ Contains(r.ParentOutput, <<"does not compile">>)
            \/ Contains(r.ParentOutput, <<"[", "build failed", "]">>)
    THEN [r EXCEPT !.FilteredReason = "compilation failure", !.IsCatching = FALSE,
                   !.Confidence = 0, !.Assessment = -100]
    ELSE r

CatchingAssessorIgnoresNewRun(r) ==
    IF r.FilteredReason # "" THEN r
    ELSE IF ~r.PassParent
    THEN [r EXCEPT !.FilteredReason = "fails on parent code", !.IsCatching = FALSE,
                   !.Confidence = 0, !.Assessment = -100]
    ELSE [r EXCEPT !.IsCatching = TRUE, !.Confidence = 100, !.Assessment = 50]

CatchingAssessorDropsCatch(r) ==
    IF r.FilteredReason # "" THEN r
    ELSE IF ~r.PassParent
    THEN [r EXCEPT !.FilteredReason = "fails on parent code", !.IsCatching = FALSE,
                   !.Confidence = 0, !.Assessment = -100]
    ELSE [r EXCEPT !.IsCatching = FALSE, !.Confidence = 0, !.Assessment = 0]

CatchingAssessorStartsAtZero(r) ==
    IF r.FilteredReason # "" THEN r
    ELSE IF ~r.PassParent
    THEN [r EXCEPT !.FilteredReason = "fails on parent code", !.IsCatching = FALSE,
                   !.Confidence = 0, !.Assessment = -100]
    ELSE IF ~r.FailDiff
    THEN [r EXCEPT !.IsCatching = FALSE, !.Confidence = 0, !.Assessment = 0]
    ELSE [r EXCEPT !.IsCatching = TRUE, !.Confidence = 100, !.Assessment = 0]

CatchingAssessorScoresNoChange(r) ==
    IF r.FilteredReason # "" THEN r
    ELSE IF ~r.PassParent
    THEN [r EXCEPT !.FilteredReason = "fails on parent code", !.IsCatching = FALSE,
                   !.Confidence = 0, !.Assessment = -100]
    ELSE IF ~r.FailDiff
    THEN [r EXCEPT !.IsCatching = FALSE, !.Confidence = 0, !.Assessment = 50]
    ELSE [r EXCEPT !.IsCatching = TRUE, !.Confidence = 100, !.Assessment = 50]

CatchingAssessorFiltersNoChange(r) ==
    IF r.FilteredReason # "" THEN r
    ELSE IF ~r.PassParent
    THEN [r EXCEPT !.FilteredReason = "fails on parent code", !.IsCatching = FALSE,
                   !.Confidence = 0, !.Assessment = -100]
    ELSE IF ~r.FailDiff
    THEN [r EXCEPT !.FilteredReason = "no behavioral change", !.IsCatching = FALSE,
                   !.Confidence = 0, !.Assessment = 0]
    ELSE [r EXCEPT !.IsCatching = TRUE, !.Confidence = 100, !.Assessment = 50]

CatchingAssessor(r) ==
    IF r.FilteredReason # "" THEN r
    ELSE IF ~r.PassParent
    THEN [r EXCEPT !.FilteredReason = "fails on parent code", !.IsCatching = FALSE,
                   !.Confidence = 0, !.Assessment = -100]
    ELSE IF ~r.FailDiff
    THEN [r EXCEPT !.IsCatching = FALSE, !.Confidence = 0, !.Assessment = 0]
    ELSE [r EXCEPT !.IsCatching = TRUE, !.Confidence = 100, !.Assessment = 50]

FalsePositivePatternsKeepsCatch(r) ==
    IF r.FilteredReason # "" \/ ~r.IsCatching THEN r
    ELSE
      LET testCode == r.Test.TestCode
          output == r.DiffOutput
          reflection == Contains(testCode, <<"reflect.">>)
          typeMismatch == Contains(output, <<"cannot use">>) \/ Contains(output, <<"type mismatch">>)
          badMock == Contains(output, <<"mock">>) /\
                     (Contains(output, <<"unexpected call">>) \/ Contains(output, <<"not set up">>))
          keyValue == Contains(output, <<"map[">>) /\ Contains(testCode, <<"fmt.Sprint">>)
          notImplemented == Contains(output, <<"not implemented">>) \/ Contains(output, <<"TODO">>)
          undefinedVar == Contains(output, <<"undefined:">>) \/ Contains(output, <<"undeclared name">>)
          infra == \/ Contains(output, <<"cannot find package">>)
                   \/ Contains(output, <<"connection refused">>)
                   \/ Contains(output, <<"timed out">>)
                   \/ Contains(output, <<"Timeout >">>)
          a == r.Assessment
               - (IF reflection THEN 30 ELSE 0)
               - (IF typeMismatch THEN 40 ELSE 0)
               - (IF badMock THEN 40 ELSE 0)
               - (IF keyValue THEN 30 ELSE 0)
               - (IF notImplemented THEN 50 ELSE 0)
               - (IF undefinedVar THEN 50 ELSE 0)
               - (IF infra THEN 60 ELSE 0)
      IN [r EXCEPT
            !.Assessment = IF a < -100 THEN -100 ELSE a,
            !.FilteredReason = IF infra THEN "infrastructure failure"
                               ELSE IF undefinedVar THEN "undefined variable (likely rename)"
                               ELSE @]

FalsePositivePatternsPenaltyOnly(r) ==
    IF r.FilteredReason # "" \/ ~r.IsCatching THEN r
    ELSE
      LET testCode == r.Test.TestCode
          output == r.DiffOutput
          reflection == Contains(testCode, <<"reflect.">>)
          typeMismatch == Contains(output, <<"cannot use">>) \/ Contains(output, <<"type mismatch">>)
          badMock == Contains(output, <<"mock">>) /\
                     (Contains(output, <<"unexpected call">>) \/ Contains(output, <<"not set up">>))
          keyValue == Contains(output, <<"map[">>) /\ Contains(testCode, <<"fmt.Sprint">>)
          notImplemented == Contains(output, <<"not implemented">>) \/ Contains(output, <<"TODO">>)
          undefinedVar == Contains(output, <<"undefined:">>) \/ Contains(output, <<"undeclared name">>)
          infra == \/ Contains(output, <<"cannot find package">>)
                   \/ Contains(output, <<"connection refused">>)
                   \/ Contains(output, <<"timed out">>)
                   \/ Contains(output, <<"Timeout >">>)
          a == r.Assessment
               - (IF reflection THEN 30 ELSE 0)
               - (IF typeMismatch THEN 40 ELSE 0)
               - (IF badMock THEN 40 ELSE 0)
               - (IF keyValue THEN 30 ELSE 0)
               - (IF notImplemented THEN 50 ELSE 0)
               - (IF undefinedVar THEN 50 ELSE 0)
               - (IF infra THEN 60 ELSE 0)
      IN [r EXCEPT
            !.Assessment = IF a < -100 THEN -100 ELSE a,
            !.FilteredReason = IF infra THEN "infrastructure failure"
                               ELSE @,
            !.IsCatching = IF infra THEN FALSE ELSE @]

FalsePositivePatterns(r) ==
    IF r.FilteredReason # "" \/ ~r.IsCatching THEN r
    ELSE
      LET testCode == r.Test.TestCode
          output == r.DiffOutput
          reflection == Contains(testCode, <<"reflect.">>)
          typeMismatch == Contains(output, <<"cannot use">>) \/ Contains(output, <<"type mismatch">>)
          badMock == Contains(output, <<"mock">>) /\
                     (Contains(output, <<"unexpected call">>) \/ Contains(output, <<"not set up">>))
          keyValue == Contains(output, <<"map[">>) /\ Contains(testCode, <<"fmt.Sprint">>)
          notImplemented == Contains(output, <<"not implemented">>) \/ Contains(output, <<"TODO">>)
          undefinedVar == Contains(output, <<"undefined:">>) \/ Contains(output, <<"undeclared name">>)
          infra == \/ Contains(output, <<"cannot find package">>)
                   \/ Contains(output, <<"connection refused">>)
                   \/ Contains(output, <<"timed out">>)
                   \/ Contains(output, <<"Timeout >">>)
          a == r.Assessment
               - (IF reflection THEN 30 ELSE 0)
               - (IF typeMismatch THEN 40 ELSE 0)
               - (IF badMock THEN 40 ELSE 0)
               - (IF keyValue THEN 30 ELSE 0)
               - (IF notImplemented THEN 50 ELSE 0)
               - (IF undefinedVar THEN 50 ELSE 0)
               - (IF infra THEN 60 ELSE 0)
      IN [r EXCEPT
            !.Assessment = IF a < -100 THEN -100 ELSE a,
            !.FilteredReason = IF infra THEN "infrastructure failure"
                               ELSE IF undefinedVar THEN "undefined variable (likely rename)"
                               ELSE @,
            !.IsCatching = IF infra \/ undefinedVar THEN FALSE ELSE @]

TruePositivePatternsNoBoolBonus(r) ==
    IF r.FilteredReason # "" \/ ~r.IsCatching THEN r
    ELSE
      LET output == r.DiffOutput
          changedBool ==
            \/ Contains(output, <<"got", ":", " true">>) /\ Contains(output, <<"want", ":", " false">>)
            \/ Contains(output, <<"got", ":", " false">>) /\ Contains(output, <<"want", ":", " true">>)
            \/ Contains(output, <<"got", " true">>) /\ Contains(output, <<"expected", " false">>)
            \/ Contains(output, <<"got", " false">>) /\ Contains(output, <<"expected", " true">>)
          nullValue ==
            \/ Contains(output, <<"got", ":", " <nil>">>)
            \/ Contains(output, <<"got", " <nil>">>)
            \/ Contains(output, <<"nil pointer dereference">>)
          emptyContainer ==
            \/ Contains(output, <<"got", ":", " []">>)
            \/ Contains(output, <<"got", " []">>)
            \/ Contains(output, <<"len(">>) /\ Contains(output, <<"= 0">>)
          keyChange == Contains(output, <<"key not found">>) \/ Contains(output, <<"index out of range">>)
          monotonic == Contains(output, <<"FAIL">>) /\
                       (\/ Contains(output, <<"got">>)
                        \/ Contains(output, <<"expected">>)
                        \/ Contains(output, <<"want">>))
          a == r.Assessment
               + (IF changedBool THEN 0 ELSE 0)
               + (IF nullValue THEN 20 ELSE 0)
               + (IF emptyContainer THEN 20 ELSE 0)
               + (IF keyChange THEN 15 ELSE 0)
               + (IF monotonic THEN 10 ELSE 0)
      IN [r EXCEPT !.Assessment = IF a > 100 THEN 100 ELSE a]

TruePositivePatterns(r) ==
    IF r.FilteredReason # "" \/ ~r.IsCatching THEN r
    ELSE
      LET output == r.DiffOutput
          changedBool ==
            \/ Contains(output, <<"got", ":", " true">>) /\ Contains(output, <<"want", ":", " false">>)
            \/ Contains(output, <<"got", ":", " false">>) /\ Contains(output, <<"want", ":", " true">>)
            \/ Contains(output, <<"got", " true">>) /\ Contains(output, <<"expected", " false">>)
            \/ Contains(output, <<"got", " false">>) /\ Contains(output, <<"expected", " true">>)
          nullValue ==
            \/ Contains(output, <<"got", ":", " <nil>">>)
            \/ Contains(output, <<"got", " <nil>">>)
            \/ Contains(output, <<"nil pointer dereference">>)
          emptyContainer ==
            \/ Contains(output, <<"got", ":", " []">>)
            \/ Contains(output, <<"got", " []">>)
            \/ Contains(output, <<"len(">>) /\ Contains(output, <<"= 0">>)
          keyChange == Contains(output, <<"key not found">>) \/ Contains(output, <<"index out of range">>)
          monotonic == Contains(output, <<"FAIL">>) /\
                       (\/ Contains(output, <<"got">>)
                        \/ Contains(output, <<"expected">>)
                        \/ Contains(output, <<"want">>))
          a == r.Assessment
               + (IF changedBool THEN 20 ELSE 0)
               + (IF nullValue THEN 20 ELSE 0)
               + (IF emptyContainer THEN 20 ELSE 0)
               + (IF keyChange THEN 15 ELSE 0)
               + (IF monotonic THEN 10 ELSE 0)
      IN [r EXCEPT !.Assessment = IF a > 100 THEN 100 ELSE a]

(***************************************************************************)
(* internal/assess: LLMJudge.Assess.  answer is what the oracle call gives: *)
(* kind "error" (the call fails), "unparsable" (json.Unmarshal fails) or   *)
(* "other shape" (JSON, but not an object with the expected keys) or "ok"  *)
(* with the score (hundredths) and the two free-text fields.               *)
(***************************************************************************)
\* json.Unmarshal([]byte(text), &jr): an error for text that is not JSON; a
\* JSON object decodes whatever its keys are, and a field of judgeResponse
\* whose key is missing keeps its zero value
Unmarshal(answer) ==
    IF answer.kind = "unparsable"
    THEN [err |-> TRUE, Assessment |-> 0, BehaviorChange |-> "", Question |-> ""]
    ELSE IF answer.kind = "other shape"
    THEN [err |-> FALSE, Assessment |-> 0, BehaviorChange |-> "", Question |-> ""]
    ELSE [err |-> FALSE, Assessment |-> answer.score,
          BehaviorChange |-> answer.behavior, Question |-> answer.question]

LLMJudgeSkipsJudged(r, answer) ==
    IF r.FilteredReason # "" \/ ~r.IsCatching \/ r.BehaviorChange # "" THEN r
    ELSE IF answer.kind = "error" THEN r
    ELSE LET jr == Unmarshal(answer) IN
         IF jr.err THEN r
         ELSE LET ruleScore == r.Assessment
                  llmScore == jr.Assessment
                  combined == (ruleScore * 40 + llmScore * 60) \div 100
              IN [r EXCEPT
                    !.Assessment = IF combined > 100 THEN 100
                                   ELSE IF combined < -100 THEN -100 ELSE combined,
                    !.BehaviorChange = jr.BehaviorChange,
                    !.Question = jr.Question]

LLMJudgeUnclamped(r, answer) ==
    IF r.FilteredReason # "" \/ ~r.IsCatching THEN r
    ELSE IF answer.kind = "error" THEN r
    ELSE LET jr == Unmarshal(answer) IN
         IF jr.err THEN r
         ELSE LET ruleScore == r.Assessment
                  llmScore == jr.Assessment
                  combined == (ruleScore * 40 + llmScore * 60) \div 100
              IN [r EXCEPT
                    !.Assessment = combined,
                    !.BehaviorChange = jr.BehaviorChange,
                    !.Question = jr.Question]

LLMJudgeClampsScoreFirst(r, answer) ==
    IF r.FilteredReason # "" \/ ~r.IsCatching THEN r
    ELSE IF answer.kind = "error" THEN r
    ELSE LET jr == Unmarshal(answer) IN
         IF jr.err THEN r
         ELSE LET ruleScore == r.Assessment
                  llmScore == IF jr.Assessment > 100 THEN 100
                              ELSE IF jr.Assessment < -100 THEN -100 ELSE jr.Assessment
                  combined == (ruleScore * 40 + llmScore * 60) \div 100
              IN [r EXCEPT
                    !.Assessment = IF combined > 100 THEN 100
                                   ELSE IF combined < -100 THEN -100 ELSE combined,
                    !.BehaviorChange = jr.BehaviorChange,
                    !.Question = jr.Question]

LLMJudge(r, answer) ==
    IF r.FilteredReason # "" \/ ~r.IsCatching THEN r
    ELSE IF answer.kind = "error" THEN r
    ELSE LET jr == Unmarshal(answer) IN
         IF jr.err THEN r
         ELSE LET ruleScore == r.Assessment
                  llmScore == jr.Assessment
                  combined == (ruleScore * 40 + llmScore * 60) \div 100
              IN [r EXCEPT
                    !.Assessment = IF combined > 100 THEN 100
                                   ELSE IF combined < -100 THEN -100 ELSE combined,
                    !.BehaviorChange = jr.BehaviorChange,
                    !.Question = jr.Question]

OracleCallsAlways(r) == 1

\* the number of j.client.Messages.New calls LLMJudge.Assess(r) makes: the
\* call sits behind the early return for filtered and non-catching results
OracleCalls(r) == IF r.FilteredReason # "" \/ ~r.IsCatching THEN 0 ELSE 1

(***************************************************************************)
(* internal/assess/assessor.go                                             *)
(***************************************************************************)
DefaultRuleOnlyChainWithoutFalsePositives ==
    <<"CompilationFilter", "CatchingAssessor", "TruePositivePatterns">>

DefaultRuleOnlyChainBonusFirst ==
    <<"CompilationFilter", "CatchingAssessor", "TruePositivePatterns", "FalsePositivePatterns">>

DefaultRuleOnlyChain ==
    <<"CompilationFilter", "CatchingAssessor", "FalsePositivePatterns", "TruePositivePatterns">>

\* DefaultCatchingChain(client, ...): the judge is appended when client != nil
DefaultCatchingChain(client) ==
    IF client THEN Append(DefaultRuleOnlyChain, "LLMJudge") ELSE DefaultRuleOnlyChain

\* Assessor.Assess, dispatched on the assessor's type
Assess(a, r, answer) ==
    CASE a = "CompilationFilter" -> CompilationFilter(r)
      [] a = "CatchingAssessor" -> CatchingAssessor(r)
      [] a = "FalsePositivePatterns" -> FalsePositivePatterns(r)
      [] a = "TruePositivePatterns" -> TruePositivePatterns(r)
      [] a = "LLMJudge" -> LLMJudge(r, answer)

\* the inner loop of Chain.Evaluate: for _, a := range c.assessors
RECURSIVE RunAssessors(_, _, _)
RunAssessors(assessors, r, answer) ==
    IF assessors = <<>> THEN r
    ELSE RunAssessors(Tail(assessors), Assess(Head(assessors), r, answer), answer)

\* the oracle calls a.Assess(r) makes: only the judge has a client
AssessCalls(a, r) == IF a = "LLMJudge" THEN OracleCalls(r) ELSE 0

\* the oracle calls of the inner loop of Chain.Evaluate
RECURSIVE RunAssessorsCalls(_, _, _)
RunAssessorsCalls(assessors, r, answer) ==
    IF assessors = <<>> THEN 0
    ELSE AssessCalls(Head(assessors), r)
         + RunAssessorsCalls(Tail(assessors), Assess(Head(assessors), r, answer), answer)

\* the oracle calls of the body of the outer loop of Chain.Evaluate
EvaluateOneCalls(assessors, r, answer) ==
    IF r.FilteredReason # "" THEN 0
    ELSE RunAssessorsCalls(assessors, [r EXCEPT !.Confidence = 100, !.Assessment = 0], answer)

EvaluateOneResetsFiltered(assessors, r, answer) ==
    RunAssessors(assessors, [r EXCEPT !.Confidence = 100, !.Assessment = 0], answer)

\* the body of the outer loop of Chain.Evaluate
EvaluateOne(assessors, r, answer) ==
    IF r.FilteredReason # "" THEN r
    ELSE RunAssessors(assessors, [r EXCEPT !.Confidence = 100, !.Assessment = 0], answer)

EvaluateReversed(assessors, rs, answers) ==
    [i \in 1..Len(rs) |->
        EvaluateOne(assessors, rs[Len(rs) + 1 - i], answers[Len(rs) + 1 - i])]

\* Chain.Evaluate(results); answers[i] is the oracle's answer for results[i]
Evaluate(assessors, rs, answers) ==
    [i \in 1..Len(rs) |-> EvaluateOne(assessors, rs[i], answers[i])]

(***************************************************************************)
(* Inputs of one pipeline run (stage 4 and 5 of Pipeline.Run) and of the   *)
(* environment: the generated tests, the runner's outcomes, I/O faults and *)
(* the oracle's answers.                                                   *)
(***************************************************************************)
Faults == {"none", "mkdtemp", "symlink"}
WriteFaults == {"none", "write"}

NoTest == [TestName |-> "", TestCode |-> <<>>, MutantID |-> ""]
NoMutant == [ID |-> "", Description |-> ""]

\* g.tests: what the generator may deliver
Tests ==
    { [TestName |-> "TestA", TestCode |-> <<"func TestA">>, MutantID |-> "m1"],
      [TestName |-> "TestB", TestCode |-> <<"func TestB", "reflect.", "DeepEqual">>,
       MutantID |-> "m1"],
      [TestName |-> "TestC", TestCode |-> <<"func TestC">>, MutantID |-> "m9"] }

\* mutantMap of g.mutants: m9 is not in it
mutantMap == [id \in {"m1"} |-> [ID |-> id, Description |-> "risk"]]

\* fmt.Sprintf("snare_%s_test.go", strings.ToLower(test.TestName))
TestFileName(testName) ==
    CASE testName = "TestA" -> "snare_testa_test.go"
      [] testName = "TestB" -> "snare_testb_test.go"
      [] testName = "TestC" -> "snare_testc_test.go"

\* g.fn.FilePath: absolute (diff.Extractor joins it with the module dir)
FilePaths == {ModuleDir \o <<"main.go">>, ModuleDir \o <<"pkg", "a.go">>}

\* captured output of one run of the test
RunOutputs ==
    { <<"ok">>,
      <<"FAIL", "\t", "[", "build failed", "]">>,
      <<"undefined:", " foo">> }

\* Language.RunTest returns (passed, output, err): exit status 0 with the
\* output of a passing test, a non-zero exit status with the output of a
\* failing build or test, or an error when the command cannot be run
RunOutcomes ==
    {[passed |-> TRUE, output |-> <<"ok">>, err |-> FALSE]}
    \cup {[passed |-> FALSE, output |-> o, err |-> FALSE] : o \in RunOutputs \ {<<"ok">>}}
    \cup {[passed |-> FALSE, output |-> <<>>, err |-> TRUE]}

OracleAnswers ==
    { [kind |-> "error", score |-> 0, behavior |-> "", question |-> ""],
      [kind |-> "unparsable", score |-> 0, behavior |-> "", question |-> ""],
      [kind |-> "other shape", score |-> 0, behavior |-> "", question |-> ""],
      [kind |-> "ok", score |-> 100, behavior |-> "changed", question |-> "intended?"],
      [kind |-> "ok", score |-> -100, behavior |-> "changed", question |-> "intended?"] }

\* the answer slot of a chain that has no judge
NoAnswer == [kind |-> "none", score |-> 0, behavior |-> "", question |-> ""]

NoCfg == [filePath |-> <<>>, parentSource |-> <<>>, newSource |-> <<>>,
          client |-> FALSE, ntests |-> 0]
NoCur == [test |-> NoTest, relPath |-> <<>>, testRelPath |-> <<>>,
          result |-> NewTestResult(NoTest, NoMutant), err |-> ""]
NoCounts == [TestsRun |-> 0, WeakCatches |-> 0, StrongCatches |-> 0, FilteredTests |-> 0]

NoRec == NewTestResult(NoTest, NoMutant)
NoStep == [n |-> 0, op |-> "none", answer |-> NoAnswer, before |-> NoRec, calls |-> 0]

NoPrompt == [commitMessage |-> "", built |-> FALSE, text |-> <<>>]

NoRun == [lang |-> "", timeout |-> 0, test |-> "", startable |-> FALSE, phase |-> "none",
          elapsed |-> 0, status |-> 0, passed |-> FALSE, output |-> <<>>, err |-> FALSE]

\* filepath.Rel(basepath, targpath) for a target below the base
Rel(base, targ) ==
    IF IsPrefix(base, targ) /\ Len(targ) > Len(base)
    THEN [rel |-> SubSeq(targ, Len(base) + 1, Len(targ)), err |-> FALSE]
    ELSE [rel |-> <<>>, err |-> TRUE]

FsUnchanged == UNCHANGED <<lastWrite, lastCall, ops, rec, step, run, prompt>>

(***************************************************************************)
(* internal/pipeline/pipeline.go, stage 4: the loop over g.tests           *)
(***************************************************************************)
\* lines 269-274: a test that references an unknown mutant is skipped
SkipUnknownMutant(t) ==
    /\ pc = "loop"
    /\ pair < cfg.ntests
    /\ t.MutantID \notin DOMAIN mutantMap
    /\ pair' = pair + 1
    /\ UNCHANGED <<fs, tdState, pc, cfg, cur, runLog, created, defers, results, counts>>
    /\ FsUnchanged

\* lines 276-277 and executor.go 36-47: the call of ExecuteCatching
CallExecuteCatching(t) ==
    /\ pc = "loop"
    /\ pair < cfg.ntests
    /\ t.MutantID \in DOMAIN mutantMap
    /\ counts' = [counts EXCEPT !.TestsRun = @ + 1]
    /\ LET r == Rel(ModuleDir, cfg.filePath)
           result == NewTestResult(t, mutantMap[t.MutantID])
       IN IF r.err
          THEN /\ cur' = [test |-> t, relPath |-> <<>>, testRelPath |-> <<>>,
                          result |-> result, err |-> "computing relative path"]
               /\ pc' = "return"
          ELSE /\ cur' = [test |-> t, relPath |-> r.rel,
                          testRelPath |-> Append(Front(r.rel), TestFileName(t.TestName)),
                          result |-> result, err |-> ""]
               /\ pc' = "td"
    /\ UNCHANGED <<fs, tdState, cfg, pair, runLog, created, defers, results>>
    /\ FsUnchanged

(***************************************************************************)
(* internal/runner/executor.go: ExecuteCatching                            *)
(***************************************************************************)
\* the shape shared by the two NewTempDir calls (lines 50-54 and 84-88)
AllocateWorkspace(h, fault, errText, next) ==
    LET r == NewTempDir(fs, h, fault) IN
    /\ fs' = r.fs
    /\ IF r.err
       THEN /\ cur' = [cur EXCEPT !.err = errText]
            /\ pc' = "return"
            /\ UNCHANGED <<tdState, created, defers>>
       ELSE /\ tdState' = [tdState EXCEPT ![h] = "live"]
            /\ created' = created \cup {h}
            /\ defers' = <<h>> \o defers           \* defer td.Cleanup()
            /\ pc' = next
            /\ UNCHANGED cur
    /\ UNCHANGED <<cfg, pair, runLog, results, counts>>
    /\ FsUnchanged

OverrideIgnoresError(h, relPath, content, fault, errText, next) ==
    LET r == OverwriteFile(fs, h, relPath, content, fault) IN
    /\ fs' = r.fs
    /\ IF r.err
       THEN cur' = [cur EXCEPT !.err = errText] /\ pc' = next
       ELSE pc' = next /\ UNCHANGED cur
    /\ UNCHANGED <<tdState, cfg, pair, runLog, created, defers, results, counts>>
    /\ FsUnchanged

\* the shape shared by the four OverwriteFile calls
Override(h, relPath, content, fault, errText, next) ==
    LET r == OverwriteFile(fs, h, relPath, content, fault) IN
    /\ fs' = r.fs
    /\ IF r.err
       THEN cur' = [cur EXCEPT !.err = errText] /\ pc' = "return"
       ELSE pc' = next /\ UNCHANGED cur
    /\ UNCHANGED <<tdState, cfg, pair, runLog, created, defers, results, counts>>
    /\ FsUnchanged

\* lines 50-54
NewTempDirParent(fault) ==
    pc = "td" /\ AllocateWorkspace("td", fault, "creating temp dir", "parentSrc")

\* lines 57-59
WriteParentSource(fault) ==
    /\ pc = "parentSrc"
    /\ Override("td", cur.relPath, cfg.parentSource, fault, "writing parent source", "parentTest")

\* lines 62-64
WriteParentTest(fault) ==
    /\ pc = "parentTest"
    /\ Override("td", cur.testRelPath, cur.test.TestCode, fault, "writing test file", "runParent")

ParentVerdictNoStop(result, out) ==
    [result |-> [result EXCEPT !.PassParent = out.passed, !.ParentOutput = out.output],
     stop |-> FALSE]

\* lines 70-81: the parent outcome is recorded; a test that does not pass on
\* the parent is filtered and ExecuteCatching returns
ParentVerdict(result, out) ==
    LET r1 == [result EXCEPT !.PassParent = out.passed, !.ParentOutput = out.output] IN
    IF ~out.passed
    THEN [result |-> [r1 EXCEPT !.FilteredReason = "fails on parent code"], stop |-> TRUE]
    ELSE [result |-> r1, stop |-> FALSE]

\* lines 66-81
RunParent(out) ==
    /\ pc = "runParent"
    /\ runLog' = Append(runLog, [root |-> Root("td"), passed |-> out.passed, err |-> out.err])
    /\ IF out.err
       THEN cur' = [cur EXCEPT !.err = "running test on parent"] /\ pc' = "return"
       ELSE LET v == ParentVerdict(cur.result, out) IN
            /\ cur' = [cur EXCEPT !.result = v.result]
            /\ pc' = IF v.stop THEN "return" ELSE "td2"
    /\ UNCHANGED <<fs, tdState, cfg, pair, created, defers, results, counts>>
    /\ FsUnchanged

\* lines 84-88
NewTempDirNew(fault) ==
    pc = "td2" /\ AllocateWorkspace("td2", fault, "creating temp dir for new code", "newSrc")

\* lines 91-93
WriteNewSource(fault) ==
    /\ pc = "newSrc"
    /\ Override("td2", cur.relPath, cfg.newSource, fault, "writing new source", "newTest")

\* lines 96-98
WriteNewTest(fault) ==
    /\ pc = "newTest"
    /\ Override("td2", cur.testRelPath, cur.test.TestCode, fault,
                "writing test file for new code", "runNew")

CatchingSignalEither(passParent, failDiff) == passParent \/ failDiff

\* line 106: result.IsCatching = result.PassParent && result.FailDiff
CatchingSignal(passParent, failDiff) == passParent /\ failDiff

\* lines 100-112
RunNew(out) ==
    /\ pc = "runNew"
    /\ runLog' = Append(runLog, [root |-> Root("td2"), passed |-> out.passed, err |-> out.err])
    /\ IF out.err
       THEN cur' = [cur EXCEPT !.err = "running test on new code"]
       ELSE LET r1 == [cur.result EXCEPT !.FailDiff = ~out.passed,
                                         !.DiffOutput = out.output]
            IN cur' = [cur EXCEPT !.result =
                         [r1 EXCEPT !.IsCatching = CatchingSignal(r1.PassParent, r1.FailDiff)]]
    /\ pc' = "return"
    /\ UNCHANGED <<fs, tdState, cfg, pair, created, defers, results, counts>>
    /\ FsUnchanged

\* the deferred td.Cleanup() calls, last registered first.  failing holds the
\* workspaces whose os.RemoveAll fails (an entry the process may not remove):
\* their tree stays, and Cleanup has no result through which to say so
RECURSIVE RunDefers(_, _, _)
RunDefers(f, stack, failing) ==
    IF stack = <<>> THEN f
    ELSE RunDefers(IF Head(stack) \in failing THEN f ELSE Cleanup(f, Head(stack)),
                   Tail(stack), failing)

\* the return of ExecuteCatching: (cur.result, cur.err) go to the caller.
\* A failing removal is considered in runs of a single pair only, where the
\* names of the two workspaces are not needed again.
Return(failing) ==
    /\ pc = "return"
    /\ failing \subseteq {defers[i] : i \in 1..Len(defers)}
    /\ failing # {} => cfg.ntests = 1
    /\ fs' = RunDefers(fs, defers, failing)
    /\ tdState' = [h \in Handles |->
                     IF h \in failing THEN "stuck"
                     ELSE IF \E i \in 1..Len(defers) : defers[i] = h THEN "cleaned"
                     ELSE tdState[h]]
    /\ defers' = <<>>
    /\ pc' = "returned"
    /\ UNCHANGED <<cfg, pair, cur, runLog, created, results, counts>>
    /\ FsUnchanged

(***************************************************************************)
(* internal/pipeline/pipeline.go, lines 278-287 and stage 5                *)
(***************************************************************************)
CollectDropsError ==
    /\ pc = "returned"
    /\ results' = IF cur.err # "" THEN results ELSE Append(results, cur.result)
    /\ pair' = pair + 1
    /\ cur' = NoCur
    /\ runLog' = <<>>
    /\ created' = {}
    /\ tdState' = [h \in Handles |-> "none"]
    /\ pc' = "loop"
    /\ UNCHANGED <<fs, cfg, defers, counts>>
    /\ FsUnchanged

\* lines 278-287: an execution error becomes the record's filter reason
Collect ==
    /\ pc = "returned"
    /\ LET tr == IF cur.err # ""
                 THEN [cur.result EXCEPT !.FilteredReason = "execution error: " \o cur.err]
                 ELSE cur.result
       IN results' = Append(results, tr)
    /\ pair' = pair + 1
    /\ cur' = NoCur
    /\ runLog' = <<>>
    /\ created' = {}
    /\ tdState' = [h \in Handles |-> "none"]
    /\ pc' = "loop"
    /\ UNCHANGED <<fs, cfg, defers, counts>>
    /\ FsUnchanged

\* number of results whose flag is set
Count(flags) == Cardinality({i \in DOMAIN flags : flags[i]})

IsWeakPassThenFail(r) == r.PassParent /\ r.FailDiff

IsWeak(r) == r.IsCatching
IsStrong(r) == r.IsCatching /\ r.Assessment > 50
IsFiltered(r) == r.FilteredReason # ""

\* lines 290-312: Chain.Evaluate, then the counters
Stage5(answers) ==
    /\ pc = "loop"
    /\ pair = cfg.ntests
    /\ LET rs == Evaluate(DefaultCatchingChain(cfg.client), results, answers) IN
       /\ results' = rs
       /\ counts' = [counts EXCEPT !.WeakCatches = Count([i \in DOMAIN rs |-> IsWeak(rs[i])]),
                                   !.StrongCatches = Count([i \in DOMAIN rs |-> IsStrong(rs[i])]),
                                   !.FilteredTests = Count([i \in DOMAIN rs |-> IsFiltered(rs[i])])]
    /\ pc' = "done"
    /\ UNCHANGED <<fs, tdState, cfg, pair, cur, runLog, created, defers>>
    /\ FsUnchanged

\* the user interrupts the run while ExecuteCatching waits for the runner:
\* no handler is installed for the signal (cmd/run.go hands Pipeline.Run the
\* command's plain context), so the process ends there and then and no
\* deferred call runs
Interrupt ==
    /\ pc \in {"runParent", "runNew"}
    /\ pc' = "killed"
    /\ UNCHANGED <<fs, tdState, cfg, pair, cur, runLog, created, defers, results, counts>>
    /\ FsUnchanged

\* what the oracle may answer for each result: it is asked only when the
\* chain has a judge and about a result the executor marked as a catch
JudgeAnswers ==
    {a \in [1..Len(results) -> OracleAnswers \cup {NoAnswer}] :
        \A i \in 1..Len(results) :
            a[i] \in (IF cfg.client /\ results[i].IsCatching
                      THEN OracleAnswers ELSE {NoAnswer})}

Init ==
    /\ fs = InitFS
    /\ tdState = [h \in Handles |-> "none"]
    /\ lastWrite = [h \in Handles |-> {}]
    /\ lastCall = [op |-> "none", h |-> "", err |-> FALSE, again |-> FALSE]
    /\ ops = 0
    /\ pc = "loop"
    /\ cfg \in {[filePath |-> p, parentSource |-> <<"P">>, newSource |-> ReadFile(InitFS, p),
                 client |-> c, ntests |-> n] :
                p \in FilePaths, c \in BOOLEAN, n \in 1..MaxPairs}
    /\ pair = 0
    /\ cur = NoCur
    /\ runLog = <<>>
    /\ created = {}
    /\ defers = <<>>
    /\ results = <<>>
    /\ counts = NoCounts
    /\ rec = NoRec
    /\ step = NoStep
    /\ run = NoRun
    /\ prompt = NoPrompt

Next ==
    \/ \E t \in Tests : SkipUnknownMutant(t)
    \/ \E t \in Tests : CallExecuteCatching(t)
    \/ \E fault \in Faults : NewTempDirParent(fault)
    \/ \E fault \in WriteFaults : WriteParentSource(fault)
    \/ \E fault \in WriteFaults : WriteParentTest(fault)
    \/ \E out \in RunOutcomes : RunParent(out)
    \/ \E fault \in Faults : NewTempDirNew(fault)
    \/ \E fault \in WriteFaults : WriteNewSource(fault)
    \/ \E fault \in WriteFaults : WriteNewTest(fault)
    \/ \E out \in RunOutcomes : RunNew(out)
    \/ \E failing \in SUBSET Handles : Return(failing)
    \/ Collect
    \/ \E answers \in JudgeAnswers : Stage5(answers)
    \/ Interrupt

Spec == Init /\ [][Next]_vars

(***************************************************************************)
(* SpecFS: any sequence of NewTempDir, OverwriteFile and Cleanup calls on  *)
(* two handles over one project root.                                      *)
(***************************************************************************)
Bytes == {<<"P">>, <<"N">>}

\* the relative paths OverwriteFile is called with
RelPaths ==
    { <<"main.go">>,                 \* a file at the top level
      <<"pkg", "a.go">>,             \* a file under a top-level directory
      <<"pkg", "sub", "c.go">>,      \* a file two directories down
      <<"pkg", "snare_t_test.go">>,  \* a new file next to pkg/a.go
      <<"snare_t_test.go">>,         \* a new file at the top level
      <<"pkg", "gen", "x.go">>,      \* a new file in a new directory
      <<"main.go", "x.go">>,         \* below a path that is a file
      <<"pkg", "sub">> }             \* a path that is a directory

\* relative paths of the project's files
ProjectFiles ==
    {SubSeq(p, 2, Len(p)) : p \in {q \in DOMAIN InitFS : InitFS[q].kind = "file"}}

NoCall == [op |-> "none", h |-> "", err |-> FALSE, again |-> FALSE]

Idle ==
    /\ pc = "idle"
    /\ UNCHANGED <<pc, cfg, pair, cur, runLog, created, defers, results, counts, rec, step, run,
                   prompt>>

FsNewTempDir(h, fault) ==
    /\ Idle
    /\ ops < MaxOps
    /\ tdState[h] # "live"
    /\ LET r == NewTempDir(fs, h, fault) IN
       /\ fs' = r.fs
       /\ tdState' = IF r.err THEN tdState ELSE [tdState EXCEPT ![h] = "live"]
       /\ lastWrite' = IF r.err THEN lastWrite ELSE [lastWrite EXCEPT ![h] = {}]
       /\ lastCall' = [op |-> "NewTempDir", h |-> h, err |-> r.err, again |-> FALSE]
    /\ ops' = ops + 1

FsOverwriteFile(h, relPath, content, fault) ==
    /\ Idle
    /\ ops < MaxOps
    /\ tdState[h] # "none"
    /\ LET r == OverwriteFile(fs, h, relPath, content, fault) IN
       /\ fs' = r.fs
       /\ lastWrite' =
            IF r.err THEN lastWrite
            ELSE [lastWrite EXCEPT ![h] =
                    {w \in @ : w[1] # relPath} \cup {<<relPath, content>>}]
       /\ lastCall' = [op |-> "OverwriteFile", h |-> h, err |-> r.err, again |-> FALSE]
    /\ ops' = ops + 1
    /\ UNCHANGED tdState

FsCleanup(h) ==
    /\ Idle
    /\ ops < MaxOps
    /\ tdState[h] # "none"
    /\ fs' = Cleanup(fs, h)
    /\ tdState' = [tdState EXCEPT ![h] = "cleaned"]
    /\ lastCall' = [op |-> "Cleanup", h |-> h, err |-> FALSE, again |-> tdState[h] = "cleaned"]
    /\ ops' = ops + 1
    /\ UNCHANGED lastWrite

InitFsState ==
    /\ fs = InitFS
    /\ tdState = [h \in Handles |-> "none"]
    /\ lastWrite = [h \in Handles |-> {}]
    /\ lastCall = NoCall
    /\ ops = 0

InitIdle ==
    /\ pc = "idle"
    /\ cfg = NoCfg
    /\ pair = 0
    /\ cur = NoCur
    /\ runLog = <<>>
    /\ created = {}
    /\ defers = <<>>
    /\ results = <<>>
    /\ counts = NoCounts
    /\ rec = NoRec
    /\ step = NoStep
    /\ run = NoRun
    /\ prompt = NoPrompt

InitFS0 == InitFsState /\ InitIdle

NextFS ==
    \/ \E h \in Handles, fault \in Faults : FsNewTempDir(h, fault)
    \/ \E h \in Handles, relPath \in RelPaths, content \in Bytes, fault \in WriteFaults :
          FsOverwriteFile(h, relPath, content, fault)
    \/ \E h \in Handles : FsCleanup(h)

SpecFS == InitFS0 /\ [][NextFS]_vars

(***************************************************************************)
(* SpecChain: single assessors and whole chains applied, one after the     *)
(* other, to one TestResult as a caller of the assess package may build it *)
(* (the package's tests build them field by field).                        *)
(***************************************************************************)
ParentOutputs ==
    { <<"ok">>,
      <<"FAIL", "\t", "[", "build failed", "]">>,
      <<"panic: test ", "timed out", " after 30s">> }                  \* go test -timeout

DiffOutputs ==
    { <<"--- ", "FAIL", ": TestA">>,                                  \* no signature
      <<"got", ":", " true", ",", " ", "want", ":", " false">>,       \* boolean flipped
      <<"undefined:", " foo">>,                                       \* rename
      <<"undefined:", " foo", "\n", "timed out">>,                    \* rename, then a timeout
      <<"undefined:", " foo", "\n", "got", ":", " <nil>">>,           \* rename, then a nil value
      <<"TODO">>,                                                     \* stub
      <<"panic: test ", "timed out", " after 30s">>,                  \* go test -timeout
      <<"Failed: ", "Timeout >", "30.0s">>,                           \* pytest --timeout
      <<"FAIL", ": ", "cannot use", " ", "mock", ": ", "unexpected call", " ", "TODO",
        " ", "got", ":", " <nil>">> }        \* three penalties, with a nil value shown

EntryReasons == {"", "fails on parent code"}

ChainInputs ==
    { r \in { [NewTestResult(t, mutantMap[t.MutantID]) EXCEPT
                  !.PassParent = pp, !.FailDiff = fd, !.IsCatching = ic,
                  !.ParentOutput = po, !.DiffOutput = do, !.FilteredReason = fr] :
              t \in {t \in Tests : t.MutantID \in DOMAIN mutantMap},
              pp \in BOOLEAN, fd \in BOOLEAN, ic \in BOOLEAN,
              po \in ParentOutputs, do \in DiffOutputs, fr \in EntryReasons } :
      r.IsCatching => (r.PassParent /\ r.FailDiff) }

Assessors ==
    {"CompilationFilter", "CatchingAssessor", "FalsePositivePatterns",
     "TruePositivePatterns", "LLMJudge"}

\* what the oracle may answer to a caller of the judge: jr.Assessment is a
\* float64 that json.Unmarshal decodes as it is written, also outside [-1, 1]
ChainAnswers ==
    OracleAnswers
    \cup { [kind |-> "ok", score |-> 300, behavior |-> "changed", question |-> "intended?"],
           [kind |-> "ok", score |-> -300, behavior |-> "changed", question |-> "intended?"] }

\* the oracle's answers an application may meet: none without a judge
AnswersFor(judge) == IF judge THEN ChainAnswers ELSE {NoAnswer}

ChainFrame ==
    /\ pc = "assess"
    /\ step.n < MaxSteps
    /\ UNCHANGED <<fs, tdState, lastWrite, lastCall, ops, pc, cfg, pair, cur, runLog,
                   created, defers, results, counts, run, prompt>>

\* a.Assess(&rec) for one assessor
AssessStep(a, answer) ==
    /\ ChainFrame
    /\ rec' = Assess(a, rec, answer)
    /\ step' = [n |-> step.n + 1, op |-> a, answer |-> answer, before |-> rec,
                calls |-> AssessCalls(a, rec)]

\* DefaultRuleOnlyChain().Evaluate or DefaultCatchingChain(client, ...).Evaluate
\* on the one-element slice holding rec
EvaluateStep(client, answer) ==
    /\ ChainFrame
    /\ rec' = Evaluate(DefaultCatchingChain(client), <<rec>>, <<answer>>)[1]
    /\ step' = [n |-> step.n + 1,
                op |-> IF client THEN "DefaultCatchingChain" ELSE "DefaultRuleOnlyChain",
                answer |-> answer, before |-> rec,
                calls |-> EvaluateOneCalls(DefaultCatchingChain(client), rec, answer)]

InitChain ==
    /\ InitFsState
    /\ pc = "assess"
    /\ cfg = NoCfg
    /\ pair = 0
    /\ cur = NoCur
    /\ runLog = <<>>
    /\ created = {}
    /\ defers = <<>>
    /\ results = <<>>
    /\ counts = NoCounts
    /\ rec \in ChainInputs
    /\ step = NoStep
    /\ run = NoRun
    /\ prompt = NoPrompt

NextChain ==
    \/ \E a \in Assessors : \E answer \in AnswersFor(a = "LLMJudge") : AssessStep(a, answer)
    \/ \E client \in BOOLEAN : \E answer \in AnswersFor(client) : EvaluateStep(client, answer)

SpecChain == InitChain /\ [][NextChain]_vars

(***************************************************************************)
(* SpecRunner: one Language.RunTest call (internal/lang), from cmd.Run to  *)
(* its return, with the test process it waits for.  Time is counted in     *)
(* seconds up to MaxTicks.                                                 *)
(***************************************************************************)
Languages == {"go", "python"}

\* how the generated test behaves when it is run
TestBehaviours == {"passes", "fails", "slow", "loops"}

\* a slow test ends after SlowAfter seconds, later than every timeout
SlowAfter == MaxTimeout + 1
MaxTicks == SlowAfter

\* the deadline the test tool works with, 0 for none.  go test -timeout=d
\* disables its timeout when d is 0; Python.RunTest raises a timeout below
\* one second to one second for pytest --timeout
Deadline(lang, timeout) ==
    IF lang = "python" THEN (IF timeout < 1 THEN 1 ELSE timeout) ELSE timeout

\* what the tool prints when it stops a test at the deadline
TimeoutOutput(lang) ==
    IF lang = "python" THEN <<"Timeout >">> ELSE <<"panic: test ", "timed out", " after">>

RunnerFrame ==
    /\ pc = "runner"
    /\ UNCHANGED <<fs, tdState, lastWrite, lastCall, ops, pc, cfg, pair, cur, runLog,
                   created, defers, results, counts, rec, step, prompt>>

\* err = cmd.Run(): the command cannot be started (toolchain missing) and
\* RunTest returns the error, or the process starts and cmd.Run waits for it
StartCommand ==
    /\ RunnerFrame
    /\ run.phase = "called"
    /\ run' = IF run.startable
              THEN [run EXCEPT !.phase = "running"]
              ELSE [run EXCEPT !.phase = "returned", !.err = TRUE]

\* a second passes while the test is running
Tick ==
    /\ RunnerFrame
    /\ run.phase = "running"
    /\ run.elapsed < MaxTicks
    /\ run' = [run EXCEPT !.elapsed = @ + 1]

\* the test ends by itself and the tool exits with its status
TestEnds ==
    /\ RunnerFrame
    /\ run.phase = "running"
    /\ \/ run.test \in {"passes", "fails"}
       \/ run.test = "slow" /\ run.elapsed >= SlowAfter
    /\ run' = [run EXCEPT !.phase = "exited",
                          !.status = IF run.test = "fails" THEN 1 ELSE 0,
                          !.output = IF run.test = "fails" THEN <<"FAIL">> ELSE <<"ok">>]

\* the tool stops the test at its deadline and exits with a failure status
ToolTimeout ==
    /\ RunnerFrame
    /\ run.phase = "running"
    /\ Deadline(run.lang, run.timeout) > 0
    /\ run.elapsed >= Deadline(run.lang, run.timeout)
    /\ run' = [run EXCEPT !.phase = "exited", !.status = 2,
                          !.output = TimeoutOutput(run.lang)]

\* cmd.Run returns: an *exec.ExitError is a failed test, nil a passed one
ReturnFromRun ==
    /\ RunnerFrame
    /\ run.phase = "exited"
    /\ run' = [run EXCEPT !.phase = "returned", !.passed = (run.status = 0)]

InitRunner ==
    /\ InitFsState
    /\ pc = "runner"
    /\ cfg = NoCfg
    /\ pair = 0
    /\ cur = NoCur
    /\ runLog = <<>>
    /\ created = {}
    /\ defers = <<>>
    /\ results = <<>>
    /\ counts = NoCounts
    /\ rec = NoRec
    /\ step = NoStep
    /\ run \in {[NoRun EXCEPT !.lang = l, !.timeout = t, !.test = b, !.startable = s,
                              !.phase = "called"] :
                 l \in Languages, t \in 0..MaxTimeout, b \in TestBehaviours, s \in BOOLEAN}
    /\ prompt = NoPrompt

NextRunner ==
    \/ StartCommand
    \/ Tick
    \/ TestEnds
    \/ ToolTimeout
    \/ ReturnFromRun

\* the operating system lets time pass and processes run
SpecRunner == InitRunner /\ [][NextRunner]_vars /\ WF_vars(NextRunner)

(***************************************************************************)
(* SpecPrompt: one buildJudgePrompt call (internal/assess, the judge).     *)
(* Here the two captured outputs are sequences of bytes, since the prompt  *)
(* cuts them at a byte count; the fixed text of the prompt is kept as one  *)
(* element per WriteString, with <fence> for the three backquotes of a     *)
(* code fence.                                                             *)
(***************************************************************************)
\* the byte budget of a captured output in the prompt
TruncateAt == 500

Marker == "\n... (truncated)"

\* an output of n bytes; the byte at a position depends on the position
OutputOfLen(n) == [i \in 1..n |-> ToString(i % 251)]

OutputLengths == {0, 1, TruncateAt - 1, TruncateAt, TruncateAt + 1, MaxOutput}

PromptOutputs == {OutputOfLen(n) : n \in OutputLengths}

PromptTests ==
    { [TestName |-> "TestA", TestCode |-> <<"func TestA">>, MutantID |-> "m1"],
      [TestName |-> "test_a", TestCode |-> <<"def test_", "a():">>, MutantID |-> "m1"] }

CommitMessages == {"", "fix rounding"}
TelemetryContexts == {"", "calls/min: 40"}

\* the results the judge builds a prompt for: unfiltered catches
PromptInputs ==
    { [TelemetryContext |-> tc] @@
      [NewTestResult(t, mutantMap[t.MutantID]) EXCEPT
          !.PassParent = TRUE, !.FailDiff = TRUE, !.IsCatching = TRUE,
          !.Confidence = 100, !.Assessment = 50,
          !.ParentOutput = po, !.DiffOutput = do] :
      t \in PromptTests, po \in PromptOutputs, do \in PromptOutputs,
      tc \in TelemetryContexts }

TruncateSilently(out) ==
    IF Len(out) > TruncateAt THEN SubSeq(out, 1, TruncateAt) ELSE out

\* if len(out) > 500 { out = out[:500] + "\n... (truncated)" }
Truncate(out) ==
    IF Len(out) > TruncateAt THEN Append(SubSeq(out, 1, TruncateAt), Marker) ELSE out

ParentHeader == "## Test passed on parent (old) code:\n<fence>\n"
DiffHeader == "## Test failed on new (changed) code:\n<fence>\n"
FenceEnd == "\n<fence>\n\n"

buildJudgePrompt(result, commitMessage) ==
    LET codeLang == IF \/ Contains(result.Test.TestCode, <<"import pytest">>)
                       \/ Contains(result.Test.TestCode, <<"def test_">>)
                    THEN "python" ELSE "go"
    IN <<"You are a code review expert ...\n\n## Test Code\n<fence>", codeLang, "\n">>
       \o result.Test.TestCode \o <<"\n<fence>\n\n">>
       \o <<ParentHeader>> \o Truncate(result.ParentOutput) \o <<FenceEnd>>
       \o <<DiffHeader>> \o Truncate(result.DiffOutput) \o <<FenceEnd>>
       \o <<"## Risk being tested\n", result.Mutant.Description, "\n\n">>
       \o (IF commitMessage # ""
           THEN <<"## Commit Context\n", commitMessage, "\n\n">> ELSE <<>>)
       \o (IF result.TelemetryContext # ""
           THEN <<"## Production Telemetry\n", "The following production telemetry ...\n\n",
                  result.TelemetryContext, "\n\n">>
           ELSE <<>>)
       \o <<"## Task ...">>

\* prompt := buildJudgePrompt(result, j.commitMessage) in LLMJudge.Assess
BuildPrompt ==
    /\ pc = "prompt"
    /\ ~prompt.built
    /\ prompt' = [prompt EXCEPT !.built = TRUE,
                                 !.text = buildJudgePrompt(rec, prompt.commitMessage)]
    /\ UNCHANGED <<fs, tdState, lastWrite, lastCall, ops, pc, cfg, pair, cur, runLog,
                   created, defers, results, counts, rec, step, run>>

InitPrompt ==
    /\ InitFsState
    /\ pc = "prompt"
    /\ cfg = NoCfg
    /\ pair = 0
    /\ cur = NoCur
    /\ runLog = <<>>
    /\ created = {}
    /\ defers = <<>>
    /\ results = <<>>
    /\ counts = NoCounts
    /\ rec \in PromptInputs
    /\ step = NoStep
    /\ run = NoRun
    /\ prompt \in {[NoPrompt EXCEPT !.commitMessage = cm] : cm \in CommitMessages}

NextPrompt == BuildPrompt

SpecPrompt == InitPrompt /\ [][NextPrompt]_vars

(***************************************************************************)
(* Properties                                                              *)
(***************************************************************************)
\* ExecuteCatching has returned (result, err) and the caller has not yet used them
Returned == pc = "returned"

\* the runner ran on the parent workspace and reported the test as passed / not passed
ParentRunPassed ==
    \E i \in 1..Len(runLog) : runLog[i].root = Root("td") /\ ~runLog[i].err /\ runLog[i].passed
ParentRunNotPassed ==
    \E i \in 1..Len(runLog) : runLog[i].root = Root("td") /\ ~runLog[i].err /\ ~runLog[i].passed
\* the runner ran on the new-code workspace and reported the test as failed
NewRunFailed ==
    \E i \in 1..Len(runLog) : runLog[i].root = Root("td2") /\ ~runLog[i].err /\ ~runLog[i].passed

\* C1: when ExecuteCatching returns without error, IsCatching is true exactly
\* when the parent run passed and the new-code run failed.
C1_CatchIsPassThenFail ==
    (Returned /\ cur.err = "") =>
        (cur.result.IsCatching <=> (ParentRunPassed /\ NewRunFailed))

C1_Witness == Returned /\ cur.err = "" /\ cur.result.IsCatching /\ Len(runLog) = 2

\* C2: no sequence of NewTempDir, OverwriteFile and Cleanup calls changes,
\* creates or deletes anything under the real project root.
C2_ProjectRootUntouched ==
    \A p \in DOMAIN fs \cup DOMAIN InitFS :
        IsPrefix(ModuleDir, p) =>
            /\ p \in DOMAIN fs
            /\ p \in DOMAIN InitFS
            /\ fs[p] = InitFS[p]

\* the pipeline has evaluated the results (stage 5 is over)
Evaluated == pc = "done"

\* C3: in the pipeline's final result set a non-empty FilteredReason implies
\* IsCatching false.
C3_FilteredNeverCatching ==
    Evaluated =>
        \A i \in 1..Len(results) : results[i].FilteredReason # "" => ~results[i].IsCatching

\* a result the executor returned as a catch and a chain stage then filtered
C3_Witness ==
    /\ Evaluated
    /\ \E i \in 1..Len(results) :
          /\ results[i].PassParent /\ results[i].FailDiff
          /\ results[i].FilteredReason \in {"compilation failure",
                                            "undefined variable (likely rename)"}

\* C4: after Chain.Evaluate with the default chain, IsCatching implies
\* PassParent and FailDiff.
C4_CatchingImpliesPassFail ==
    Evaluated =>
        \A i \in 1..Len(results) :
            results[i].IsCatching => (results[i].PassParent /\ results[i].FailDiff)

C4_Witness == Evaluated /\ \E i \in 1..Len(results) : results[i].IsCatching

\* C5 as claimed: after the default chain, PassParent and FailDiff imply
\* IsCatching (the two booleans alone determine IsCatching).
C5_Converse ==
    Evaluated =>
        \A i \in 1..Len(results) :
            (results[i].PassParent /\ results[i].FailDiff) => results[i].IsCatching

\* C5 amended: after the default chain, PassParent and FailDiff imply
\* IsCatching for every result whose FilteredReason is empty.
C5_ConverseUnlessFiltered ==
    Evaluated =>
        \A i \in 1..Len(results) :
            (results[i].PassParent /\ results[i].FailDiff /\ results[i].FilteredReason = "")
                => results[i].IsCatching

C5_Witness ==
    /\ Evaluated
    /\ \E i \in 1..Len(results) :
          results[i].PassParent /\ results[i].FailDiff /\ results[i].FilteredReason = ""

\* what a path reads as under a workspace root and under the project root
ReadUnder(h, p) == ReadFile(fs, Root(h) \o p)
ReadProject(p) == ReadFile(fs, ModuleDir \o p)

\* C6: after any sequence of OverwriteFile calls on one workspace (no other
\* workspace was ever created), each overridden path reads as its latest
\* override and every project file never overridden reads as in the project.
C6_WorkspaceIsolation ==
    \A h \in Handles :
        (tdState[h] = "live" /\ \A other \in Handles \ {h} : tdState[other] = "none") =>
            /\ \A w \in lastWrite[h] : ReadUnder(h, w[1]) = w[2]
            /\ \A p \in ProjectFiles :
                  (\A w \in lastWrite[h] : w[1] # p) => ReadUnder(h, p) = ReadProject(p)

\* C7: an OverwriteFile through one handle never changes what any path
\* resolves to under the other handle.
C7_NoSharedState ==
    [][(lastCall'.op = "OverwriteFile" /\ ops' = ops + 1) =>
          \A h \in Handles \ {lastCall'.h} :
              \A p \in RelPaths \cup ProjectFiles :
                  ReadFile(fs', Root(h) \o p) = ReadFile(fs, Root(h) \o p)]_vars

C9_StopsOnParentFailure ==
    (Returned /\ ParentRunNotPassed) =>
        /\ cur.err = ""
        /\ cur.result.FilteredReason = "fails on parent code"
        /\ ~cur.result.IsCatching
        /\ ~cur.result.FailDiff
        /\ cur.result.DiffOutput = <<>>
        /\ "td2" \notin created
        /\ Len(runLog) = 1

C9_Witness == Returned /\ ParentRunNotPassed

\* C10: whenever ExecuteCatching returns a non-nil error, PassParent, FailDiff
\* and IsCatching of the returned result are all false.
C10_ErrorLeavesNoOutcome ==
    (Returned /\ cur.err # "") =>
        (~cur.result.PassParent /\ ~cur.result.FailDiff /\ ~cur.result.IsCatching)


\* the errors ExecuteCatching returns (executor.go lines 43-102)
ExecutionErrors ==
    {"computing relative path", "creating temp dir", "writing parent source",
     "writing test file", "running test on parent", "creating temp dir for new code",
     "writing new source", "writing test file for new code", "running test on new code"}

\* the filter reasons the pipeline derives from them
ExecutionErrorReasons == {"execution error: " \o e : e \in ExecutionErrors}

\* C11: an error returned by ExecuteCatching for a pair is never recorded as
\* the FilteredReason of the pair's TestResult, and so never counted in
\* FilteredTests.
C11_ErrorNeverFiltered ==
    /\ \A i \in 1..Len(results) : results[i].FilteredReason \notin ExecutionErrorReasons
    /\ Evaluated =>
          counts.FilteredTests =
              Cardinality({i \in 1..Len(results) :
                              /\ results[i].FilteredReason # ""
                              /\ results[i].FilteredReason \notin ExecutionErrorReasons})

\* C12: an error of ExecuteCatching for one pair does not stop the loop: the
\* record of the pair is appended, the remaining pairs are executed, and at
\* the end of the run there is exactly one record per executed pair.
C12_RunSurvivesPairError ==
    /\ (pc \in {"loop", "done"}) => Len(results) = counts.TestsRun
    /\ (pc \notin {"loop", "done"}) => Len(results) + 1 = counts.TestsRun
    /\ Evaluated => pair = cfg.ntests
    /\ Len(results) <= pair

\* the first pair ended with an error, the second was executed to its verdict
C12_Witness ==
    /\ Evaluated
    /\ Len(results) = 2
    /\ counts.TestsRun = 2
    /\ results[1].FilteredReason \in ExecutionErrorReasons
    /\ results[2].PassParent /\ results[2].FailDiff


\* an assessor or a chain has been applied to rec; step.before is the record
\* it was applied to
Applied(opNames) == step.n > 0 /\ step.op \in opNames

RuleChain == {"DefaultRuleOnlyChain"}
AnyChain == {"DefaultRuleOnlyChain", "DefaultCatchingChain"}

\* r as a weak catch with the score at zero, the record on which every
\* signature a pattern stage matches shows
AsWeakCatch(r) == [r EXCEPT !.IsCatching = TRUE, !.FilteredReason = "", !.Assessment = 0]

NoFalsePositiveSignature(r) == FalsePositivePatterns(AsWeakCatch(r)) = AsWeakCatch(r)
NoTruePositiveSignature(r) == TruePositivePatterns(AsWeakCatch(r)) = AsWeakCatch(r)
NoInfrastructureSignature(r) ==
    FalsePositivePatterns(AsWeakCatch(r)).FilteredReason # "infrastructure failure"
NoBuildFailureMarker(r) ==
    CompilationFilter([r EXCEPT !.FilteredReason = ""]).FilteredReason = ""

\* a pass-then-fail result that is not filtered when the chain starts
PassThenFail(r) == r.PassParent /\ r.FailDiff /\ r.FilteredReason = ""

\* C13: an assessor of the default chain, and Chain.Evaluate, leave every
\* field of a result unchanged when its FilteredReason is non-empty on entry.
C13_FilteredUntouched ==
    (Applied(Assessors \cup AnyChain) /\ step.before.FilteredReason # "") => rec = step.before

\* the chain with a judge that answers was applied to a filtered pass-then-fail result
C13_Witness ==
    /\ Applied({"DefaultCatchingChain"})
    /\ step.answer.kind = "ok"
    /\ step.before.FilteredReason # ""
    /\ step.before.PassParent /\ step.before.FailDiff /\ step.before.IsCatching

\* C14: a second Chain.Evaluate on an already evaluated result, with the same
\* chain and the same oracle answer, yields the same Assessment, IsCatching
\* and FilteredReason as the first.
C14_EvaluateIdempotent ==
    [][(/\ step.op \in AnyChain
        /\ step'.n = step.n + 1
        /\ step'.op = step.op
        /\ step'.answer = step.answer)
       => (/\ rec'.Assessment = rec.Assessment
           /\ rec'.IsCatching = rec.IsCatching
           /\ rec'.FilteredReason = rec.FilteredReason)]_vars

\* the chain with a judge was applied twice, with an answer that is blended in
C14_Witness ==
    /\ step.n = 2
    /\ step.op = "DefaultCatchingChain"
    /\ step.answer.kind = "ok"
    /\ step.before.BehaviorChange # ""
    /\ rec.IsCatching

\* C15 as claimed: a result with PassParent and FailDiff true that matches no
\* false-positive and no true-positive signature leaves the rule-only chain
\* with IsCatching true, no FilteredReason and Assessment 0.5.
C15_NeutralWithoutSignature ==
    (/\ Applied(RuleChain)
     /\ PassThenFail(step.before)
     /\ NoFalsePositiveSignature(step.before)
     /\ NoTruePositiveSignature(step.before))
    => (rec.IsCatching /\ rec.FilteredReason = "" /\ rec.Assessment = 50)

\* C15 amended: the same, for a result whose parent-run output carries no
\* build-failure marker.
C15_NeutralWithoutSignatureOrMarker ==
    (/\ Applied(RuleChain)
     /\ PassThenFail(step.before)
     /\ NoBuildFailureMarker(step.before)
     /\ NoFalsePositiveSignature(step.before)
     /\ NoTruePositiveSignature(step.before))
    => (rec.IsCatching /\ rec.FilteredReason = "" /\ rec.Assessment = 50)

C15_Witness ==
    /\ Applied(RuleChain)
    /\ PassThenFail(step.before)
    /\ NoBuildFailureMarker(step.before)
    /\ NoFalsePositiveSignature(step.before)
    /\ NoTruePositiveSignature(step.before)
    /\ rec.Assessment = 50

\* C16: a result that is not yet filtered and whose parent-run output
\* contains "[build failed]" leaves the default chain with IsCatching false
\* and FilteredReason "compilation failure", whatever PassParent and FailDiff.
C16_BuildFailureFiltered ==
    (/\ Applied(AnyChain)
     /\ step.before.FilteredReason = ""
     /\ Contains(step.before.ParentOutput, <<"[", "build failed", "]">>))
    => (~rec.IsCatching /\ rec.FilteredReason = "compilation failure")

\* the parent run passed all the same, the new run failed, and a judge answered
C16_Witness ==
    /\ Applied({"DefaultCatchingChain"})
    /\ step.answer.kind = "ok"
    /\ PassThenFail(step.before)
    /\ Contains(step.before.ParentOutput, <<"[", "build failed", "]">>)
    /\ rec.FilteredReason = "compilation failure"


\* the new-run output contains "got: true, want: false"
ShowsFlippedBool(r) ==
    Contains(r.DiffOutput, <<"got", ":", " true", ",", " ", "want", ":", " false">>)

\* the new-run output contains "undefined: foo"
ShowsUndefinedFoo(r) == Contains(r.DiffOutput, <<"undefined:", " foo">>)

\* C17 as claimed: a result with PassParent and FailDiff true whose new-run
\* output contains "got: true, want: false" and that matches no false-positive
\* signature leaves the rule-only chain with IsCatching true and Assessment
\* above 0.5.
C17_FlippedBoolIsStrong ==
    (/\ Applied(RuleChain)
     /\ PassThenFail(step.before)
     /\ ShowsFlippedBool(step.before)
     /\ NoFalsePositiveSignature(step.before))
    => (rec.IsCatching /\ rec.Assessment > 50)

\* C17 amended: the same, for a result whose parent-run output carries no
\* build-failure marker.
C17_FlippedBoolIsStrongWithoutMarker ==
    (/\ Applied(RuleChain)
     /\ PassThenFail(step.before)
     /\ NoBuildFailureMarker(step.before)
     /\ ShowsFlippedBool(step.before)
     /\ NoFalsePositiveSignature(step.before))
    => (rec.IsCatching /\ rec.Assessment > 50)

C17_Witness ==
    /\ Applied(RuleChain)
    /\ PassThenFail(step.before)
    /\ NoBuildFailureMarker(step.before)
    /\ ShowsFlippedBool(step.before)
    /\ NoFalsePositiveSignature(step.before)
    /\ rec.Assessment = 70

\* C18 as claimed: a result with PassParent and FailDiff true whose new-run
\* output contains "undefined: foo", whatever else the output holds, leaves
\* the chain with IsCatching false and FilteredReason
\* "undefined variable (likely rename)".
C18_UndefinedIsRename ==
    (/\ Applied(AnyChain)
     /\ PassThenFail(step.before)
     /\ ShowsUndefinedFoo(step.before))
    => (~rec.IsCatching /\ rec.FilteredReason = "undefined variable (likely rename)")

\* C18 amended: the same, for a result whose parent-run output carries no
\* build-failure marker and whose new-run output carries no infrastructure
\* signature; with one of these the result is filtered under that reason.
C18_UndefinedIsRenameUnlessOtherFilter ==
    (/\ Applied(AnyChain)
     /\ PassThenFail(step.before)
     /\ ShowsUndefinedFoo(step.before))
    => /\ ~rec.IsCatching
       /\ rec.FilteredReason =
            IF ~NoBuildFailureMarker(step.before) THEN "compilation failure"
            ELSE IF ~NoInfrastructureSignature(step.before) THEN "infrastructure failure"
            ELSE "undefined variable (likely rename)"

\* the output goes on after "undefined: foo" with a true-positive signature
C18_Witness ==
    /\ Applied(AnyChain)
    /\ PassThenFail(step.before)
    /\ ShowsUndefinedFoo(step.before)
    /\ ~NoTruePositiveSignature(step.before)
    /\ rec.FilteredReason = "undefined variable (likely rename)"

\* the oracle call failed, or its response is not the expected JSON object
JudgeFailed(answer) == answer.kind \in {"error", "unparsable", "other shape"}

\* C19: when the oracle call fails or its response cannot be parsed as the
\* expected JSON shape, LLMJudge.Assess changes nothing, and the chain with
\* the judge ends where the rule-only chain ends.
C19_JudgeFailureIsNoOp ==
    /\ (Applied({"LLMJudge"}) /\ JudgeFailed(step.answer)) => rec = step.before
    /\ (Applied({"DefaultCatchingChain"}) /\ JudgeFailed(step.answer)) =>
          rec = Evaluate(DefaultRuleOnlyChain, <<step.before>>, <<NoAnswer>>)[1]

\* a path that names nothing in the workspace of handle h
Absent(h, relPath) == ~Exists(fs, Root(h) \o relPath)

\* C20: OverwriteFile succeeds for every relative path that does not yet
\* exist in the workspace, the new top-level file and the file under a new
\* top-level directory included, and the path then reads as the bytes given.
C20_CreatesMissingPath ==
    \A h \in Handles :
        tdState[h] = "live" =>
            \A relPath \in RelPaths, content \in Bytes :
                Absent(h, relPath) =>
                    LET r == OverwriteFile(fs, h, relPath, content, "none") IN
                    ~r.err /\ ReadFile(r.fs, Root(h) \o relPath) = content


\* the part of a file system below a root
Below(f, root) == [q \in {q \in DOMAIN f : IsPrefix(root, q)} |-> f[q]]

\* C21: Cleanup removes the whole workspace tree and nothing else; a second
\* Cleanup on the same handle changes nothing; a NewTempDir that fails
\* part-way leaves no workspace and the project root as it was.
C21_CleanupIdempotent ==
    [][/\ (lastCall'.op = "Cleanup" /\ ops' = ops + 1) =>
             /\ Below(fs', Root(lastCall'.h)) = << >>
             /\ \A root \in {ModuleDir} \cup {Root(h) : h \in Handles \ {lastCall'.h}} :
                   Below(fs', root) = Below(fs, root)
             /\ lastCall'.again => fs' = fs
       /\ (lastCall'.op = "NewTempDir" /\ lastCall'.err /\ ops' = ops + 1) =>
             /\ Below(fs', Root(lastCall'.h)) = << >>
             /\ Below(fs', ModuleDir) = Below(fs, ModuleDir)]_vars

\* Cleanup was called a second time on a handle while the other workspace
\* is alive and holds an override
C21_Witness ==
    /\ lastCall.op = "Cleanup"
    /\ lastCall.again
    /\ \E h \in Handles \ {lastCall.h} : tdState[h] = "live" /\ lastWrite[h] # {}


\* C22: every runner invocation eventually returns; a test that is still
\* running at the caller's timeout is reported as not passed, without error,
\* with output that records the timeout.
C22_RunnerAlwaysReturns ==
    /\ (run.phase = "called") ~> (run.phase = "returned")
    /\ [](run.phase = "returned" /\ run.status = 2 =>
              ~run.passed /\ ~run.err /\ run.output = TimeoutOutput(run.lang))


\* the process was ended by a signal while a pair was in flight
Killed == pc = "killed"

\* C23: when the run is cancelled or interrupted while a pair is in flight,
\* every workspace created for the pair is still removed.
C23_TeardownOnInterrupt ==
    Killed => \A h \in created : Below(fs, Root(h)) = << >>

\* C24: no two workspaces of one pair exist at the same time.
C24_OneWorkspaceAtATime ==
    ~(Root("td") \in DOMAIN fs /\ Root("td2") \in DOMAIN fs)

\* the toolchain-failure markers of the compilation filter
HasBuildFailureMarker(output) ==
    \/ Contains(output, <<"build failed">>)
    \/ Contains(output, <<"does not compile">>)
    \/ Contains(output, <<"[", "build failed", "]">>)

\* C25: one ExecuteCatching call invokes the runner at most twice, first on
\* the parent workspace, then, only if that run passed, on the new-code
\* workspace, and never for a run one of whose overrides failed.
C25_RunnerOrder ==
    /\ Len(runLog) <= 2
    /\ Len(runLog) >= 1 => runLog[1].root = Root("td")
    /\ Len(runLog) = 2 =>
          /\ runLog[2].root = Root("td2")
          /\ runLog[1].passed /\ ~runLog[1].err
    /\ cur.err \in {"creating temp dir", "writing parent source", "writing test file"} =>
          Len(runLog) = 0
    /\ cur.err \in {"creating temp dir for new code", "writing new source",
                    "writing test file for new code"} => Len(runLog) = 1
    /\ pc \in {"td", "parentSrc", "parentTest", "runParent"} => Len(runLog) = 0
    /\ pc \in {"td2", "newSrc", "newTest", "runNew"} => Len(runLog) = 1

\* an override for the new-code run failed after the parent run had passed
C25_Witness ==
    /\ Returned
    /\ cur.err \in {"writing new source", "writing test file for new code"}
    /\ Len(runLog) = 1
    /\ cur.result.PassParent

\* C26: a pair whose parent run is reported as not passed with "[build
\* failed]" in its output ends, after ExecuteCatching and the default chain,
\* with IsCatching false and FilteredReason "compilation failure".
C26_ParentBuildFailure ==
    Evaluated =>
        \A i \in 1..Len(results) :
            (/\ ~results[i].PassParent
             /\ Contains(results[i].ParentOutput, <<"[", "build failed", "]">>))
            => (~results[i].IsCatching /\ results[i].FilteredReason = "compilation failure")

\* C27: a result whose parent run passed cleanly and whose new-code output
\* carries a toolchain-failure marker ends the chain with FilteredReason
\* "compilation failure", IsCatching false, confidence 0 and assessment -1.
C27_NewBuildFailure ==
    Evaluated =>
        \A i \in 1..Len(results) :
            (/\ results[i].PassParent
             /\ ~HasBuildFailureMarker(results[i].ParentOutput)
             /\ HasBuildFailureMarker(results[i].DiffOutput))
            => /\ results[i].FilteredReason = "compilation failure"
               /\ ~results[i].IsCatching
               /\ results[i].Confidence = 0
               /\ results[i].Assessment = -100

\* C28: on a result that is not yet filtered and has no build-failure marker,
\* CatchingAssessor classifies three ways: PassParent false gives FilteredReason
\* "fails on parent code" with IsCatching false; PassParent true with FailDiff
\* false gives no FilteredReason, IsCatching false and Assessment 0; PassParent
\* and FailDiff true give IsCatching true, Confidence 1.0 and Assessment 0.5.
C28_ThreeWayClassification ==
    (/\ Applied({"CatchingAssessor"})
     /\ step.before.FilteredReason = ""
     /\ NoBuildFailureMarker(step.before))
    => /\ ~step.before.PassParent
            => (rec.FilteredReason = "fails on parent code" /\ ~rec.IsCatching)
       /\ (step.before.PassParent /\ ~step.before.FailDiff)
            => (rec.FilteredReason = "" /\ ~rec.IsCatching /\ rec.Assessment = 0)
       /\ (step.before.PassParent /\ step.before.FailDiff)
            => (/\ rec.FilteredReason = "" /\ rec.IsCatching
                /\ rec.Confidence = 100 /\ rec.Assessment = 50)

\* CatchingAssessor met an unfiltered test that passes on both versions
C28_Witness ==
    /\ Applied({"CatchingAssessor"})
    /\ step.before.FilteredReason = ""
    /\ NoBuildFailureMarker(step.before)
    /\ step.before.PassParent /\ ~step.before.FailDiff
    /\ rec.FilteredReason = "" /\ ~rec.IsCatching /\ rec.Assessment = 0

\* the sum of the penalties of the false-positive signatures r matches, and
\* the sum of the bonuses of the true-positive signatures it matches, read off
\* a score far from both limits
Penalties(r) ==
    1000 - FalsePositivePatterns([AsWeakCatch(r) EXCEPT !.Assessment = 1000]).Assessment
Bonuses(r) ==
    TruePositivePatterns([AsWeakCatch(r) EXCEPT !.Assessment = -1000]).Assessment + 1000

Floor(a) == IF a < -100 THEN -100 ELSE a
Ceiling(a) == IF a > 100 THEN 100 ELSE a

\* the false-positive stage sets a FilteredReason on r (rename or infrastructure)
FilteredByPatterns(r) == FalsePositivePatterns(AsWeakCatch(r)).FilteredReason # ""

\* C29 as claimed: for an unfiltered catch the rule-based assessment is 0.5
\* minus the sum of all matched penalties plus the sum of all matched bonuses,
\* limited to [-1, 1].
C29_NetAdditive ==
    (/\ Applied(RuleChain)
     /\ PassThenFail(step.before)
     /\ NoBuildFailureMarker(step.before))
    => rec.Assessment =
         Ceiling(Floor(50 - Penalties(step.before) + Bonuses(step.before)))

\* C29 amended: the penalties are subtracted from 0.5 and the difference is
\* limited below at -1; unless the false-positive stage filtered the result,
\* the bonuses are then added and the sum is limited above at 1.
C29_AdditivePerStage ==
    (/\ Applied(RuleChain)
     /\ PassThenFail(step.before)
     /\ NoBuildFailureMarker(step.before))
    => rec.Assessment =
         IF FilteredByPatterns(step.before)
         THEN Floor(50 - Penalties(step.before))
         ELSE Ceiling(Floor(50 - Penalties(step.before)) + Bonuses(step.before))

\* penalties that pass the lower limit met bonuses
C29_Witness ==
    /\ Applied(RuleChain)
    /\ PassThenFail(step.before)
    /\ NoBuildFailureMarker(step.before)
    /\ ~FilteredByPatterns(step.before)
    /\ 50 - Penalties(step.before) < -100
    /\ Bonuses(step.before) > 0
    /\ rec.Assessment = -100 + Bonuses(step.before)

\* 0.4 * ruleScore + 0.6 * llmScore, limited to [-1, 1]
Blend(ruleScore, llmScore) == Ceiling(Floor((ruleScore * 40 + llmScore * 60) \div 100))

\* the record the rule stages of the chain hand to the judge
RuleResult(r) == EvaluateOne(DefaultRuleOnlyChain, r, NoAnswer)

\* C30: when the oracle returns a parsable score s for an unfiltered catch
\* with rule-based assessment r, the assessment becomes 0.4*r + 0.6*s limited
\* to [-1, 1], also for s outside [-1, 1]; IsCatching and FilteredReason stay.
C30_BlendClamped ==
    /\ (/\ Applied({"LLMJudge"})
        /\ step.answer.kind = "ok"
        /\ step.before.FilteredReason = "" /\ step.before.IsCatching)
       => /\ rec.Assessment = Blend(step.before.Assessment, step.answer.score)
          /\ rec.IsCatching = step.before.IsCatching
          /\ rec.FilteredReason = step.before.FilteredReason
    /\ (/\ Applied({"DefaultCatchingChain"})
        /\ step.answer.kind = "ok"
        /\ step.before.FilteredReason = ""
        /\ RuleResult(step.before).FilteredReason = ""
        /\ RuleResult(step.before).IsCatching)
       => /\ rec.Assessment = Blend(RuleResult(step.before).Assessment, step.answer.score)
          /\ rec.IsCatching
          /\ rec.FilteredReason = ""

\* a score of 3.0 was blended with a negative rule-based assessment
C30_Witness ==
    /\ Applied({"LLMJudge", "DefaultCatchingChain"})
    /\ step.answer.kind = "ok"
    /\ step.answer.score > 100
    /\ RuleResult(step.before).FilteredReason = ""
    /\ RuleResult(step.before).IsCatching
    /\ RuleResult(step.before).Assessment < 0
    /\ rec.Assessment = 100

\* the record does not reach the judge's oracle call: filtered or not catching
NotForJudge(r) == r.FilteredReason # "" \/ ~r.IsCatching

\* C31: LLMJudge calls the oracle only for a result that is unfiltered and
\* catching when the judge stage runs; for a filtered or non-catching result
\* no call is made and the record is unchanged.
C31_JudgeOnlyForCatches ==
    /\ Applied({"LLMJudge"})
       => /\ step.calls = (IF NotForJudge(step.before) THEN 0 ELSE 1)
          /\ NotForJudge(step.before) => rec = step.before
    /\ Applied({"DefaultCatchingChain"})
       => /\ step.calls = (IF NotForJudge(RuleResult(step.before)) THEN 0 ELSE 1)
          /\ NotForJudge(RuleResult(step.before)) => rec = RuleResult(step.before)
    /\ Applied((Assessors \ {"LLMJudge"}) \cup RuleChain) => step.calls = 0

\* a pass-then-fail result that the false-positive stage filtered went
\* through the chain with a judge whose answer would have been blended in
C31_Witness ==
    /\ Applied({"DefaultCatchingChain"})
    /\ step.answer.kind = "ok"
    /\ PassThenFail(step.before)
    /\ NoBuildFailureMarker(step.before)
    /\ FilteredByPatterns(step.before)
    /\ step.calls = 0
    /\ rec = RuleResult(step.before)

\* C32: after Chain.Evaluate, whatever the inputs and the oracle's answer,
\* the result has Assessment within [-1, 1] and Confidence within [0, 1].
C32_ScoresInRange ==
    Applied(AnyChain)
    => /\ -100 <= rec.Assessment /\ rec.Assessment <= 100
       /\ 0 <= rec.Confidence /\ rec.Confidence <= 100

\* the oracle answered -3.0 for a catch and the blend stopped at the lower limit
C32_Witness ==
    /\ Applied({"DefaultCatchingChain"})
    /\ step.answer.kind = "ok"
    /\ step.answer.score < -100
    /\ step.calls = 1
    /\ rec.IsCatching
    /\ rec.Assessment = -100

\* C33: when the removal of a workspace directory fails during teardown,
\* ExecuteCatching returns an error to its caller.
C33_TeardownFailureSurfaced ==
    (Returned /\ \E h \in created : tdState[h] = "stuck" /\ Root(h) \in DOMAIN fs)
    => cur.err # ""

\* the run is over: stage 5 has evaluated the results and counted them
Done == pc = "done"

\* C34: the aggregates are sums over the final results: WeakCatches counts
\* those with IsCatching, StrongCatches those with IsCatching and Assessment
\* above 0.5, FilteredTests those with a FilteredReason; hence StrongCatches
\* <= WeakCatches and WeakCatches + FilteredTests <= number of results.
C34_AggregatesAreSums ==
    Done =>
      /\ counts.WeakCatches =
            Cardinality({i \in DOMAIN results : results[i].IsCatching})
      /\ counts.StrongCatches =
            Cardinality({i \in DOMAIN results :
                            results[i].IsCatching /\ results[i].Assessment > 50})
      /\ counts.FilteredTests =
            Cardinality({i \in DOMAIN results : results[i].FilteredReason # ""})
      /\ counts.StrongCatches <= counts.WeakCatches
      /\ counts.WeakCatches + counts.FilteredTests <= Len(results)

\* a run of two pairs: one a strong catch, the other a pass-then-fail result
\* that a pattern stage filtered
C34_Witness ==
    /\ Done
    /\ Len(results) = 2
    /\ counts.WeakCatches = 1 /\ counts.StrongCatches = 1 /\ counts.FilteredTests = 1
    /\ \E i \in DOMAIN results :
          /\ results[i].PassParent /\ results[i].FailDiff
          /\ results[i].FilteredReason = "undefined variable (likely rename)"

\* the part of the prompt between a section header and the fence that closes it
Section(text, header) ==
    LET i == CHOOSE i \in 1..Len(text) : text[i] = header
        j == CHOOSE j \in (i + 1)..Len(text) :
                 text[j] = FenceEnd /\ \A k \in (i + 1)..(j - 1) : text[k] # FenceEnd
    IN SubSeq(text, i + 1, j - 1)

\* out is shown as the claim says: whole and without marker when it has at
\* most 500 bytes, else its first 500 bytes followed by the marker
ShownAsClaimed(out, shown) ==
    IF Len(out) <= 500
    THEN shown = out /\ \A k \in 1..Len(shown) : shown[k] # Marker
    ELSE /\ Len(shown) = 501
         /\ \A k \in 1..500 : shown[k] = out[k]
         /\ shown[501] = Marker

\* C35: in the judge prompt a captured output of at most 500 bytes appears
\* verbatim with no truncation marker, and a longer one appears as its first
\* 500 bytes followed by the "(truncated)" marker; no output is shortened
\* without the marker.
C35_TruncationIsMarked ==
    prompt.built =>
      /\ ShownAsClaimed(rec.ParentOutput, Section(prompt.text, ParentHeader))
      /\ ShownAsClaimed(rec.DiffOutput, Section(prompt.text, DiffHeader))

\* a prompt for a parent output of exactly 500 bytes and a longer new-code output
C35_Witness ==
    /\ prompt.built
    /\ Len(rec.ParentOutput) = 500
    /\ Len(rec.DiffOutput) > 500
    /\ Section(prompt.text, ParentHeader) = rec.ParentOutput
    /\ Len(Section(prompt.text, DiffHeader)) = 501

\* C36: after Chain.Evaluate every result with IsCatching false, whether the
\* executor, the pipeline or a chain stage filtered it or it shows no change
\* of behaviour, has an assessment of at most 0.
C36_NonCatchingNotPositive ==
    Done => \A i \in DOMAIN results :
                ~results[i].IsCatching => results[i].Assessment <= 0

\* a run with a catch scored above zero, and with a test that passes on both
\* versions or a pass-then-fail result that a pattern stage filtered
C36_Witness ==
    /\ Done
    /\ \E i \in DOMAIN results : results[i].IsCatching /\ results[i].Assessment > 0
    /\ \E i \in DOMAIN results :
          /\ results[i].PassParent
          /\ ~results[i].IsCatching
          /\ results[i].Assessment = 0

\* C37: after Chain.Evaluate the confidence of a result is 1.0 when IsCatching
\* is true and 0 when it is false; in particular every filtered result has
\* confidence 0, whichever stage filtered it.
C37_ConfidenceFollowsCatching ==
    Done => \A i \in DOMAIN results :
                /\ results[i].Confidence = (IF results[i].IsCatching THEN 100 ELSE 0)
                /\ results[i].FilteredReason # "" => results[i].Confidence = 0

\* the output of a run that the test tool stopped at its timeout
TimedOut(output) == Contains(output, <<"timed out">>) \/ Contains(output, <<"Timeout >">>)

\* C38 as claimed: a pair whose new-code run times out leaves the chain with
\* IsCatching false and FilteredReason "infrastructure failure"; a pair whose
\* parent run times out ends filtered as "fails on parent code".
C38_TimeoutNeverCatch ==
    Applied(AnyChain) =>
      /\ (PassThenFail(step.before) /\ TimedOut(step.before.DiffOutput))
            => (~rec.IsCatching /\ rec.FilteredReason = "infrastructure failure")
      /\ (~step.before.PassParent /\ TimedOut(step.before.ParentOutput))
            => (~rec.IsCatching /\ rec.FilteredReason = "fails on parent code")

\* C38 amended: a pair whose new-code run times out never leaves the chain
\* as a catch; its FilteredReason is "infrastructure failure" unless the
\* parent-run output carries a build-failure marker, which makes it
\* "compilation failure".  A pair whose parent run times out ends filtered as
\* "fails on parent code".
C38_TimeoutNeverCatchEitherReason ==
    Applied(AnyChain) =>
      /\ (PassThenFail(step.before) /\ TimedOut(step.before.DiffOutput))
            => /\ ~rec.IsCatching
               /\ rec.FilteredReason =
                     (IF NoBuildFailureMarker(step.before)
                      THEN "infrastructure failure" ELSE "compilation failure")
      /\ (~step.before.PassParent /\ TimedOut(step.before.ParentOutput))
            => (~rec.IsCatching /\ rec.FilteredReason = "fails on parent code")

\* the chain with an answering judge met a new-code run that only timed out
C38_Witness ==
    /\ Applied({"DefaultCatchingChain"})
    /\ step.answer.kind = "ok"
    /\ PassThenFail(step.before)
    /\ NoBuildFailureMarker(step.before)
    /\ TimedOut(step.before.DiffOutput)
    /\ ~Contains(step.before.DiffOutput, <<"undefined:">>)
    /\ ~rec.IsCatching
    /\ rec.FilteredReason = "infrastructure failure"

\* the fields of a result that the executor owns
ExecutorFields(r) ==
    <<r.Test, r.Mutant, r.PassParent, r.FailDiff, r.ParentOutput, r.DiffOutput>>

\* C39: Chain.Evaluate returns as many results as it was given, in the same
\* order, and no assessor changes Test, Mutant, PassParent, FailDiff,
\* ParentOutput or DiffOutput of a result.
C39_EvaluateKeepsExecutorFields ==
    [][(pc = "loop" /\ pc' = "done")
       => (/\ Len(results') = Len(results)
           /\ \A i \in DOMAIN results :
                 ExecutorFields(results'[i]) = ExecutorFields(results[i]))]_vars

\* two results of different tests went through the chain, and the judge
\* wrote its answer into one of them
C39_Witness ==
    /\ Done
    /\ Len(results) = 2
    /\ results[1].Test # results[2].Test
    /\ \E i \in DOMAIN results : results[i].BehaviorChange # ""
    /\ \E i \in DOMAIN results : results[i].FilteredReason # ""


=============================================================================
